---- MODULE Spec2Model ----
(***************************************************************************)
(* Event-graph walker (eg-walker) reference implementation: the simple     *)
(* oplog / replay engine (simple/src/index.ts) on top of its run-length    *)
(* encoded causal graph (simple/src/causal-graph.ts), and the oplog of     *)
(* index.ts with run-length encoded operations on top of the CausalGraph   *)
(* class of src/causal-graph.ts.                                           *)
(*                                                                         *)
(* Local versions (LVs) are 0-based as in the source; TLA+ sequences are   *)
(* 1-based, so the element with LV v of a list is list[v + 1].             *)
(* Agents are numbered; the numeric order of agents stands for the string  *)
(* order of their names ("a" < "b" < ...).                                 *)
(* An optional value (T | null) is a sequence of length at most one.       *)
(***************************************************************************)
EXTENDS Integers, Sequences, FiniteSets, TLC

\* ---- bounds of the model ----
\* The number of operations the peers issue between them, and the longest
\* run of elements one local edit inserts or deletes.
MaxOps == 3
MaxRun == 2
\* The longest run of operations the remote agent sends in one piece, and
\* the number of operations that are typed into the oplog of index.ts.
MaxRemoteRun == 2
MaxTyped == 2
\* The longest list of versions handed to findDominators.
MaxVersions == 3

\* Two peers, each editing under its own agent name, and a third agent
\* whose operations arrive from the network only.
Agents == {1, 2, 3}
Peers == {1, 2}
LastAgent == Cardinality(Agents)
LastPeer == Cardinality(Peers)
Undefined == "undefined"

\* ---- small helpers standing for JavaScript built-ins ----
min2(a, b) == IF a < b THEN a ELSE b
max2(a, b) == IF a > b THEN a ELSE b

Includes(s, v) == \E i \in 1..Len(s) : s[i] = v

Reverse(s) == [i \in 1..Len(s) |-> s[Len(s) + 1 - i]]

\* Array.prototype.splice(idx, 0, item) with a 0-based idx.
SpliceIn(s, idx, item) ==
  LET k == min2(idx, Len(s))
  IN SubSeq(s, 1, k) \o <<item>> \o SubSeq(s, k + 1, Len(s))

\* Array.prototype.splice(idx, 1) with a 0-based idx: a no-op past the end.
SpliceOut(s, idx) ==
  IF idx >= Len(s) THEN s
  ELSE SubSeq(s, 1, idx) \o SubSeq(s, idx + 2, Len(s))

RECURSIVE InsertSorted(_, _)
InsertSorted(s, v) ==
  IF s = <<>> THEN <<v>>
  ELSE IF v < Head(s) THEN <<v>> \o s
  ELSE <<Head(s)>> \o InsertSorted(Tail(s), v)

RECURSIVE sortVersions(_)
sortVersions(v) ==
  IF v = <<>> THEN <<>>
  ELSE InsertSorted(sortVersions(Tail(v)), Head(v))

\* The npm binary-search package, for the comparator
\*   needle < entry.start ? 1 : needle >= entry.end ? -1 : 0
\* over a list of [start, end) ranges. Returns a 0-based index, or ~low.
RECURSIVE bsRange(_, _, _, _)
bsRange(ranges, needle, low, high) ==
  IF low > high THEN (0 - low) - 1
  ELSE LET mid == low + ((high - low) \div 2)
           r == ranges[mid + 1]
       IN IF needle >= r[2] THEN bsRange(ranges, needle, mid + 1, high)
          ELSE IF needle < r[1] THEN bsRange(ranges, needle, low, mid - 1)
          ELSE mid

\* The same search for the comparator getKey(entry) - needle.
RECURSIVE bsKey(_, _, _, _)
bsKey(keys, needle, low, high) ==
  IF low > high THEN (0 - low) - 1
  ELSE LET mid == low + ((high - low) \div 2)
           c == keys[mid + 1] - needle
       IN IF c < 0 THEN bsKey(keys, needle, mid + 1, high)
          ELSE IF c > 0 THEN bsKey(keys, needle, low, mid - 1)
          ELSE mid

\* ---- causal graph ----
createCG ==
  [heads |-> <<>>, entries |-> <<>>, agentToVersion |-> [a \in Agents |-> <<>>]]

tryRangeAppend(r1, r2) == r1[2] = r2[1]

tryRevRangeAppend(r1, r2) == r1[1] = r2[2]

\* pushRLEList(list, [start, end], tryRangeAppend)
pushRange(list, r) ==
  IF list # <<>> /\ tryRangeAppend(list[Len(list)], r)
    THEN [list EXCEPT ![Len(list)] = <<list[Len(list)][1], r[2]>>]
    ELSE Append(list, r)

\* pushRLEList(list, [start, end], tryRevRangeAppend)
pushReversedRLE(list, start, end) ==
  IF list # <<>> /\ tryRevRangeAppend(list[Len(list)], <<start, end>>)
    THEN [list EXCEPT ![Len(list)] = <<start, list[Len(list)][2]>>]
    ELSE Append(list, <<start, end>>)

\* advanceFrontier that leaves the parents among the heads.
advanceFrontier_keepParents(frontier, vLast, parents) ==
  sortVersions(Append(frontier, vLast))

advanceFrontier(frontier, vLast, parents) ==
  LET keep(v) == ~Includes(parents, v)
  IN sortVersions(Append(SelectSeq(frontier, keep), vLast))

nextLV(cg) ==
  IF cg.entries = <<>> THEN 0 ELSE cg.entries[Len(cg.entries)].vEnd

\* nextSeqForAgent that reads the agent's first entry instead of its last.
nextSeqForAgent_first(cg, agent) ==
  LET entries == cg.agentToVersion[agent]
  IN IF entries = <<>> THEN 0 ELSE entries[1].seqEnd

nextSeqForAgent(cg, agent) ==
  LET entries == cg.agentToVersion[agent]
  IN IF entries = <<>> THEN 0 ELSE entries[Len(entries)].seqEnd

\* tryAppendEntries that expects the parent to be the LV after a's last.
tryAppendEntries_parentIsNext(a, b) ==
  /\ b.version = a.vEnd
  /\ a.agent = b.agent
  /\ a.seq + (a.vEnd - a.version) = b.seq
  /\ Len(b.parents) = 1
  /\ b.parents[1] = a.vEnd

tryAppendEntries(a, b) ==
  /\ b.version = a.vEnd
  /\ a.agent = b.agent
  /\ a.seq + (a.vEnd - a.version) = b.seq
  /\ Len(b.parents) = 1
  /\ b.parents[1] = a.vEnd - 1

\* tryAppendClientEntry that does not compare the versions.
tryAppendClientEntry_seqOnly(a, b) == b.seq = a.seqEnd

tryAppendClientEntry(a, b) ==
  /\ b.seq = a.seqEnd
  /\ b.version = a.version + (a.seqEnd - a.seq)

ClientRanges(av) == [i \in 1..Len(av) |-> <<av[i].seq, av[i].seqEnd>>]

EntryRanges(cg) ==
  [i \in 1..Len(cg.entries) |-> <<cg.entries[i].version, cg.entries[i].vEnd>>]

\* ClientEntry | null
findClientEntryRaw(cg, agent, seq) ==
  LET av == cg.agentToVersion[agent]
      result == bsRange(ClientRanges(av), seq, 0, Len(av) - 1)
  IN IF av = <<>> \/ result < 0 THEN <<>> ELSE <<av[result + 1]>>

findClientEntryTrimmed(cg, agent, seq) ==
  LET result == findClientEntryRaw(cg, agent, seq)
  IN IF result = <<>> THEN <<>>
     ELSE LET clientEntry == result[1]
              offset == seq - clientEntry.seq
          IN IF offset = 0 THEN <<clientEntry>>
             ELSE <<[seq |-> seq, seqEnd |-> clientEntry.seqEnd,
                     version |-> clientEntry.version + offset]>>

hasVersion(cg, agent, seq) == findClientEntryRaw(cg, agent, seq) # <<>>

\* CGEntry | null; a missing LV makes the callers throw.
findEntryContainingRaw(cg, v) ==
  LET idx == bsRange(EntryRanges(cg), v, 0, Len(cg.entries) - 1)
  IN IF idx < 0 THEN <<>> ELSE <<cg.entries[idx + 1]>>

\* lvToRaw that forgets the offset of the LV inside its entry.
lvToRaw_entryStart(cg, v) ==
  LET e == findEntryContainingRaw(cg, v)[1]
  IN <<e.agent, e.seq>>

\* [agent, seq] of an LV the graph holds.
lvToRaw(cg, v) ==
  LET e == findEntryContainingRaw(cg, v)[1]
  IN <<e.agent, e.seq + (v - e.version)>>

\* The parents of one LV: the LV before it inside an entry, the entry's
\* parents at its start.
parentsOf(cg, v) ==
  LET e == findEntryContainingRaw(cg, v)[1]
  IN IF v > e.version THEN <<v - 1>> ELSE e.parents

lvToRawList(cg, parents) == [i \in 1..Len(parents) |-> lvToRaw(cg, parents[i])]

\* LV | null
tryRawToLV(cg, agent, seq) ==
  LET clientEntry == findClientEntryTrimmed(cg, agent, seq)
  IN IF clientEntry = <<>> THEN <<>> ELSE <<clientEntry[1].version>>

\* rawToLVList throws when one of the ids is unknown.
rawToLVListThrows(cg, parents) ==
  \E i \in 1..Len(parents) : tryRawToLV(cg, parents[i][1], parents[i][2]) = <<>>

\* idToLVList that is off by one version.
rawToLVList_shifted(cg, parents) ==
  [i \in 1..Len(parents) |-> tryRawToLV(cg, parents[i][1], parents[i][2])[1] + 1]

rawToLVList(cg, parents) ==
  [i \in 1..Len(parents) |-> tryRawToLV(cg, parents[i][1], parents[i][2])[1]]

rawVersionCmp(a, b) ==
  IF a[1] < b[1] THEN 0 - 1
  ELSE IF a[1] > b[1] THEN 1
  ELSE a[2] - b[2]

\* A tie-break on the local versions instead of on the Ids.
lvCmp_byLV(cg, a, b) == a - b

lvCmp(cg, a, b) == rawVersionCmp(lvToRaw(cg, a), lvToRaw(cg, b))

\* insertRLEList(list, newItem, e => e.seq, tryAppendClientEntry).
\* The result carries err when the code throws 'item already exists'.
insertRLEList(list, newItem) ==
  LET n == Len(list)
      keys == [i \in 1..n |-> list[i].seq]
      extend(i) == [list EXCEPT ![i].seqEnd = newItem.seqEnd]
  IN IF n = 0 \/ newItem.seq >= list[n].seq
       THEN [err |-> FALSE,
             list |-> IF n # 0 /\ tryAppendClientEntry(list[n], newItem)
                        THEN extend(n) ELSE Append(list, newItem)]
       ELSE LET found == bsKey(keys, newItem.seq, 0, n - 1)
                idx == (0 - found) - 1
            IN IF found >= 0 THEN [err |-> TRUE, list |-> list]
               ELSE [err |-> FALSE,
                     list |-> IF idx = 0 \/ ~tryAppendClientEntry(list[idx], newItem)
                                THEN SpliceIn(list, idx, newItem)
                                ELSE extend(idx)]

\* The while (true) loop of add: skip the part of the span the graph holds.
RECURSIVE addTrim(_, _, _, _, _)
addTrim(cg, agent, seqStart, seqEnd, parents) ==
  LET existingEntry == findClientEntryTrimmed(cg, agent, seqStart)
  IN IF existingEntry = <<>>
       THEN [known |-> FALSE, seqStart |-> seqStart, parents |-> parents]
     ELSE IF existingEntry[1].seqEnd >= seqEnd
       THEN [known |-> TRUE, seqStart |-> seqStart, parents |-> parents]
     ELSE addTrim(cg, agent, existingEntry[1].seqEnd, seqEnd,
                  <<existingEntry[1].version
                      + (existingEntry[1].seqEnd - existingEntry[1].seq) - 1>>)

\* pushRLEList that puts the new entry in the place of the one it extends.
pushEntry_overwrite(entries, entry) ==
  IF entries # <<>> /\ tryAppendEntries(entries[Len(entries)], entry)
    THEN [entries EXCEPT ![Len(entries)] = entry]
    ELSE Append(entries, entry)

\* pushRLEList(cg.entries, entry, tryAppendEntries)
pushEntry(entries, entry) ==
  IF entries # <<>> /\ tryAppendEntries(entries[Len(entries)], entry)
    THEN [entries EXCEPT ![Len(entries)].vEnd = entry.vEnd]
    ELSE Append(entries, entry)

\* add returns the new entry, or null when the whole span is already known.
add(cg, agent, seqStart, seqEnd, parents) ==
  LET version == nextLV(cg)
      addTrimmed(t) ==
        LET len == seqEnd - t.seqStart
            vEnd == version + len
            entry == [version |-> version, vEnd |-> vEnd, agent |-> agent,
                      seq |-> t.seqStart, parents |-> t.parents]
            addEntry(ins) ==
              IF ins.err
                THEN [cg |-> [cg EXCEPT !.entries = pushEntry(cg.entries, entry)],
                      entry |-> <<>>, err |-> TRUE]
                ELSE [cg |-> [heads |-> advanceFrontier(cg.heads, vEnd - 1,
                                                        t.parents),
                              entries |-> pushEntry(cg.entries, entry),
                              agentToVersion |->
                                [cg.agentToVersion EXCEPT ![agent] = ins.list]],
                      entry |-> <<entry>>, err |-> FALSE]
        IN IF t.known THEN [cg |-> cg, entry |-> <<>>, err |-> FALSE]
           ELSE addEntry(insertRLEList(cg.agentToVersion[agent],
                           [seq |-> t.seqStart, seqEnd |-> seqEnd,
                            version |-> version]))
  IN addTrimmed(addTrim(cg, agent, seqStart, seqEnd, parents))

addRaw(cg, id, len, rawParents) ==
  IF rawToLVListThrows(cg, rawParents)
    THEN [cg |-> cg, entry |-> <<>>, err |-> TRUE]
    ELSE add(cg, id[1], id[2], id[2] + len, rawToLVList(cg, rawParents))

\* ---- adding to the graph in src/causal-graph.ts (class CausalGraph) ----
\* The queries of that file are the ones above; add and addRemote differ.
\* Results carry len, the number of versions actually added, and err when
\* an assertion of the code fails.
\* findAVIndex that looks one seq too far.
findAVIndex_offByOne(av, seq) ==
  bsRange(ClientRanges(av), seq + 1, 0, Len(av) - 1)

findAVIndex(av, seq) == bsRange(ClientRanges(av), seq, 0, Len(av) - 1)

\* sameAsHeads: parents is the very array cg.heads (parents === cg.heads).
internalAddToEntries(cg, version, agent, seqStart, seqEnd, parents, sameAsHeads) ==
  LET len == seqEnd - seqStart
      vEnd == version + len
      entry == [version |-> version, vEnd |-> vEnd, agent |-> agent,
                seq |-> seqStart, parents |-> parents]
  IN IF ~(len > 0) THEN [cg |-> cg, len |-> 0, err |-> TRUE]
     ELSE [cg |-> [cg EXCEPT !.entries = pushEntry(cg.entries, entry),
                             !.heads = IF sameAsHeads THEN <<vEnd - 1>>
                                       ELSE advanceFrontier(cg.heads, vEnd - 1,
                                                            parents)],
           len |-> len, err |-> FALSE]

\* The duplicate test of add replaced by one that never finds the last seq.
cgAdd_noDuplicateTest(cg, agent, seqStart, seqEnd, parents) ==
  LET version == nextLV(cg)
      av == cg.agentToVersion[agent]
      given == IF parents = <<>> THEN cg.heads ELSE parents[1]
      newEntry == [seq |-> seqStart, seqEnd |-> seqEnd, version |-> version]
  IN IF seqStart = seqEnd THEN [cg |-> cg, len |-> 0, err |-> FALSE]
     ELSE internalAddToEntries(
            [cg EXCEPT !.agentToVersion[agent] = Append(av, newEntry)],
            version, agent, seqStart, seqEnd, given, parents = <<>>)

\* CausalGraph.add(agent, seqStart, seqEnd, parents?): parents is optional,
\* and when omitted it defaults to cg.heads itself.
cgAdd(cg, agent, seqStart, seqEnd, parents) ==
  LET version == nextLV(cg)
      av == cg.agentToVersion[agent]
      found == findAVIndex(av, seqEnd - 1)
      idx == (0 - found) - 1
      given == IF parents = <<>> THEN cg.heads ELSE parents[1]
      withAv(newAv) == [cg EXCEPT !.agentToVersion[agent] = newAv]
      prev == av[idx]
      prevEndLV == prev.version + (prev.seqEnd - prev.seq)
      overlap == idx >= 1 /\ prev.seqEnd > seqStart
      seqStart2 == IF overlap THEN prev.seqEnd ELSE seqStart
      parents2 == IF overlap THEN <<prevEndLV - 1>> ELSE given
      sameAsHeads == parents = <<>> /\ ~overlap
      newEntry == [seq |-> seqStart2, seqEnd |-> seqEnd, version |-> version]
  IN IF seqStart = seqEnd THEN [cg |-> cg, len |-> 0, err |-> FALSE]
     ELSE IF av = <<>>
       THEN internalAddToEntries(
              withAv(<<[seq |-> seqStart, seqEnd |-> seqEnd, version |-> version]>>),
              version, agent, seqStart, seqEnd, given, parents = <<>>)
     ELSE IF found >= 0 THEN [cg |-> cg, len |-> 0, err |-> FALSE]
     ELSE IF overlap /\ ~(prev.seqEnd < seqEnd)
       THEN [cg |-> cg, len |-> 0, err |-> TRUE]
     ELSE IF overlap /\ prevEndLV = version
       THEN internalAddToEntries(withAv([av EXCEPT ![idx].seqEnd = seqEnd]),
              version, agent, seqStart2, seqEnd, parents2, FALSE)
     ELSE internalAddToEntries(
            withAv(IF idx = 0 \/ ~tryAppendClientEntry(av[idx], newEntry)
                     THEN SpliceIn(av, idx, newEntry)
                     ELSE [av EXCEPT ![idx].seqEnd = seqEnd]),
            version, agent, seqStart2, seqEnd, parents2, sameAsHeads)

\* addRemote(id, len, rawParents): idToLVList throws on an unknown parent
\* before anything is added.
addRemote(cg, id, len, rawParents) ==
  IF rawToLVListThrows(cg, rawParents)
    THEN [cg |-> cg, len |-> 0, err |-> TRUE]
    ELSE cgAdd(cg, id[1], id[2], id[2] + len, <<rawToLVList(cg, rawParents)>>)

\* ---- version summaries ----
RECURSIVE summarizeAgent(_, _, _)
summarizeAgent(av, i, versions) ==
  IF i > Len(av) THEN versions
  ELSE summarizeAgent(av, i + 1, pushRange(versions, <<av[i].seq, av[i].seqEnd>>))

\* agent -> list of [seqStart, seqEnd); an empty list stands for an absent key.
summarizeVersion(cg) ==
  [k \in Agents |-> summarizeAgent(cg.agentToVersion[k], 1, <<>>)]

\* eachVersionBetween with the visitor of intersectWithSummary, which
\* pushes the last LV of every visited piece.
RECURSIVE eachVersionBetweenLoop(_, _, _, _)
eachVersionBetweenLoop(cg, idx, vEnd, versions) ==
  IF idx >= Len(cg.entries) THEN versions
  ELSE LET entry == cg.entries[idx + 1]
       IN IF entry.version >= vEnd THEN versions
          ELSE eachVersionBetweenLoop(cg, idx + 1, vEnd,
                 Append(versions, min2(vEnd, entry.vEnd) - 1))

eachVersionBetween(cg, vStart, vEnd, versions) ==
  LET idx == bsRange(EntryRanges(cg), vStart, 0, Len(cg.entries) - 1)
  IN eachVersionBetweenLoop(cg, idx, vEnd, versions)

\* The inner for loop of intersectWithSummaryFull over one [startSeq, endSeq).
RECURSIVE intersectRange(_, _, _, _, _, _)
intersectRange(cg, clientEntries, idx, startSeq, endSeq, versions) ==
  IF idx >= Len(clientEntries) THEN versions
  ELSE LET ce == clientEntries[idx + 1]
           start2 == max2(startSeq, ce.seq)
           versionStart == ce.version + (start2 - ce.seq)
           localSeqEnd == min2(ce.seqEnd, endSeq)
       IN IF ce.seq >= endSeq THEN versions
          ELSE intersectRange(cg, clientEntries, idx + 1, localSeqEnd, endSeq,
                 eachVersionBetween(cg, versionStart,
                   versionStart + (localSeqEnd - start2), versions))

RECURSIVE intersectAgent(_, _, _, _, _)
intersectAgent(cg, agent, ranges, i, versions) ==
  IF i > Len(ranges) THEN versions
  ELSE LET clientEntries == cg.agentToVersion[agent]
           found == bsRange(ClientRanges(clientEntries), ranges[i][1], 0,
                            Len(clientEntries) - 1)
           idx == IF found < 0 THEN (0 - found) - 1 ELSE found
       IN intersectAgent(cg, agent, ranges, i + 1,
            intersectRange(cg, clientEntries, idx, ranges[i][1], ranges[i][2],
                           versions))

RECURSIVE intersectWithSummaryFull(_, _, _, _)
intersectWithSummaryFull(cg, summary, agent, versions) ==
  IF agent > LastAgent THEN versions
  ELSE intersectWithSummaryFull(cg, summary, agent + 1,
         intersectAgent(cg, agent, summary[agent], 1, versions))

\* ---- priority queues (priorityqueuejs): a max-heap, kept as a list in
\* descending order; deq and peek take the head ----
RECURSIVE enq(_, _)
enq(queue, v) ==
  IF queue = <<>> THEN <<v>>
  ELSE IF v >= Head(queue) THEN <<v>> \o queue
  ELSE <<Head(queue)>> \o enq(Tail(queue), v)

RECURSIVE enqAll(_, _)
enqAll(queue, vs) ==
  IF vs = <<>> THEN queue ELSE enqAll(enq(queue, Head(vs)), Tail(vs))

\* while (!queue.isEmpty() && queue.peek() >= bound) queue.deq()
RECURSIVE deqWhileAtLeast(_, _)
deqWhileAtLeast(queue, bound) ==
  IF queue # <<>> /\ Head(queue) >= bound
    THEN deqWhileAtLeast(Tail(queue), bound)
    ELSE queue

\* ---- versionContainsLV ----
RECURSIVE versionContainsLoop(_, _, _)
versionContainsLoop(cg, queue, target) ==
  IF queue = <<>> THEN FALSE
  ELSE LET v == Head(queue)
           e == findEntryContainingRaw(cg, v)[1]
           hit(p) == p = target
           above(p) == p > target
       IN IF v = target \/ e.version <= target THEN TRUE
          ELSE IF SelectSeq(e.parents, hit) # <<>> THEN TRUE
          ELSE versionContainsLoop(cg,
                 enqAll(deqWhileAtLeast(Tail(queue), e.version),
                        SelectSeq(e.parents, above)),
                 target)

versionContainsLV(cg, frontier, target) ==
  LET above(v) == v > target
  IN IF Includes(frontier, target) THEN TRUE
     ELSE versionContainsLoop(cg, enqAll(<<>>, SelectSeq(frontier, above)), target)

\* ---- diff ----
FlagA == 0
FlagB == 1
FlagShared == 2

\* The state of diff's walk: queue, flags (a map LV -> DiffFlag), numShared
\* and the two outputs (in descending order until the final reverse).
\* enq of diff that keeps the first flag of an LV queued from both sides.
diffEnq_keepFlag(st, v, flag) ==
  IF v \notin DOMAIN st.flags
    THEN [st EXCEPT !.queue = enq(st.queue, v),
                    !.flags = (v :> flag) @@ st.flags,
                    !.numShared = IF flag = FlagShared THEN @ + 1 ELSE @]
  ELSE st

diffEnq(st, v, flag) ==
  IF v \notin DOMAIN st.flags
    THEN [st EXCEPT !.queue = enq(st.queue, v),
                    !.flags = (v :> flag) @@ st.flags,
                    !.numShared = IF flag = FlagShared THEN @ + 1 ELSE @]
  ELSE IF flag # st.flags[v] /\ st.flags[v] # FlagShared
    THEN [st EXCEPT !.flags = [@ EXCEPT ![v] = FlagShared],
                    !.numShared = @ + 1]
  ELSE st

RECURSIVE diffEnqAll(_, _, _)
diffEnqAll(st, vs, flag) ==
  IF vs = <<>> THEN st
  ELSE diffEnqAll(diffEnq(st, Head(vs), flag), Tail(vs), flag)

markRun(st, start, endInclusive, flag) ==
  IF endInclusive < start THEN [st EXCEPT !.err = TRUE]
  ELSE IF flag = FlagShared THEN st
  ELSE IF flag = FlagA
    THEN [st EXCEPT !.aOnly = pushReversedRLE(@, start, endInclusive + 1)]
    ELSE [st EXCEPT !.bOnly = pushReversedRLE(@, start, endInclusive + 1)]

\* The inner while loop of diff: consume the queued LVs inside entry e.
\* w = [st, v, flag].
RECURSIVE diffInner(_, _)
diffInner(w, e) ==
  IF w.st.queue # <<>> /\ Head(w.st.queue) >= e.version
    THEN LET v2 == Head(w.st.queue)
             flag2 == w.st.flags[v2]
             st1 == [w.st EXCEPT !.queue = Tail(@),
                                 !.numShared = IF flag2 = FlagShared
                                                 THEN @ - 1 ELSE @]
         IN IF flag2 # w.flag
              THEN diffInner([st |-> markRun(st1, v2 + 1, w.v, w.flag),
                              v |-> v2, flag |-> FlagShared], e)
              ELSE diffInner([w EXCEPT !.st = st1], e)
    ELSE w

RECURSIVE diffLoop(_, _)
diffLoop(cg, st) ==
  IF st.err \/ Len(st.queue) <= st.numShared THEN st
  ELSE LET v == Head(st.queue)
           flag == st.flags[v]
           st1 == [st EXCEPT !.queue = Tail(@),
                             !.numShared = IF flag = FlagShared
                                             THEN @ - 1 ELSE @]
           found == findEntryContainingRaw(cg, v)
           e == found[1]
           w == diffInner([st |-> st1, v |-> v, flag |-> flag], e)
       IN IF found = <<>> THEN [st EXCEPT !.err = TRUE]
          ELSE diffLoop(cg,
                 diffEnqAll(markRun(w.st, e.version, w.v, w.flag),
                            e.parents, w.flag))

diff(cg, a, b) ==
  LET st0 == [queue |-> <<>>, flags |-> <<>>, numShared |-> 0,
              aOnly |-> <<>>, bOnly |-> <<>>, err |-> FALSE]
      st == diffLoop(cg, diffEnqAll(diffEnqAll(st0, a, FlagA), b, FlagB))
  IN [aOnly |-> Reverse(st.aOnly), bOnly |-> Reverse(st.bOnly), err |-> st.err]

\* ---- dominators ----
\* The general path of findDominators2. The queue holds v * 2 for an input
\* and v * 2 + 1 for a parent; result collects the dominators in the order
\* the callback receives them.
RECURSIVE dominatorsClear(_, _)
dominatorsClear(w, bound) ==
  IF w.queue # <<>> /\ Head(w.queue) >= bound
    THEN dominatorsClear(
           [w EXCEPT !.queue = Tail(@),
                     !.inputsRemaining = IF Head(w.queue) % 2 = 0
                                           THEN @ - 1 ELSE @], bound)
    ELSE w

RECURSIVE dominatorsLoop(_, _)
dominatorsLoop(cg, w) ==
  IF w.queue = <<>> \/ w.inputsRemaining <= 0 THEN w
  ELSE LET vEnc == Head(w.queue)
           isInput == vEnc % 2 = 0
           v == vEnc \div 2
           e == findEntryContainingRaw(cg, v)[1]
           w1 == [queue |-> Tail(w.queue),
                  inputsRemaining |-> IF isInput THEN w.inputsRemaining - 1
                                                 ELSE w.inputsRemaining,
                  result |-> IF isInput THEN Append(w.result, v) ELSE w.result]
           w2 == dominatorsClear(w1, e.version * 2)
       IN dominatorsLoop(cg,
            [w2 EXCEPT !.queue =
               enqAll(@, [i \in 1..Len(e.parents) |-> e.parents[i] * 2 + 1])])

\* findDominators2 whose two-element path takes both versions for
\* dominators without asking versionContainsLV.
findDominators2_pairBoth(cg, versions) ==
  IF Len(versions) = 0 THEN <<>>
  ELSE IF Len(versions) = 1 THEN versions
  ELSE IF Len(versions) = 2
    THEN LET v0 == min2(versions[1], versions[2])
             v1 == max2(versions[1], versions[2])
         IN IF versions[1] = versions[2] THEN <<versions[1]>>
            ELSE <<v1, v0>>
  ELSE dominatorsLoop(cg,
         [queue |-> enqAll(<<>>, [i \in 1..Len(versions) |-> versions[i] * 2]),
          inputsRemaining |-> Len(versions),
          result |-> <<>>]).result

findDominators2(cg, versions) ==
  IF Len(versions) = 0 THEN <<>>
  ELSE IF Len(versions) = 1 THEN versions
  ELSE IF Len(versions) = 2
    THEN LET v0 == min2(versions[1], versions[2])
             v1 == max2(versions[1], versions[2])
         IN IF versions[1] = versions[2] THEN <<versions[1]>>
            ELSE IF versionContainsLV(cg, <<v1>>, v0) THEN <<v1>>
            ELSE <<v1, v0>>
  ELSE dominatorsLoop(cg,
         [queue |-> enqAll(<<>>, [i \in 1..Len(versions) |-> versions[i] * 2]),
          inputsRemaining |-> Len(versions),
          result |-> <<>>]).result

\* findDominators that hands back its input, sorted.
findDominators_all(cg, versions) == sortVersions(versions)

findDominators(cg, versions) ==
  IF Len(versions) <= 1 THEN versions
  ELSE Reverse(findDominators2(cg, versions))

\* The remainder intersectWithSummary also returns is not used by any caller
\* modelled here. The order in which the agents of the summary are visited
\* only permutes the list handed to findDominators.
intersectWithSummary(cg, summary) ==
  findDominators(cg, intersectWithSummaryFull(cg, summary, 1, <<>>))

\* ---- serialised diffs ----
RECURSIVE serializeRange(_, _, _, _)
serializeRange(cg, start, end, entries) ==
  IF start = end THEN entries
  ELSE LET e == findEntryContainingRaw(cg, start)[1]
           offset == start - e.version
           localEnd == min2(end, e.vEnd)
           len == localEnd - start
           parents == IF offset = 0 THEN lvToRawList(cg, e.parents)
                      ELSE <<<<e.agent, e.seq + offset - 1>>>>
       IN serializeRange(cg, start + len, end,
            Append(entries, [agent |-> e.agent, seq |-> e.seq + offset,
                             len |-> len, parents |-> parents]))

\* The diff serialised with the later ranges first.
RECURSIVE serializeDiffLoop_descending(_, _, _)
serializeDiffLoop_descending(cg, ranges, entries) ==
  IF ranges = <<>> THEN entries
  ELSE serializeDiffLoop_descending(cg, Tail(ranges), <<>>)
         \o serializeRange(cg, Head(ranges)[1], Head(ranges)[2], entries)

RECURSIVE serializeDiffLoop(_, _, _)
serializeDiffLoop(cg, ranges, entries) ==
  IF ranges = <<>> THEN entries
  ELSE serializeDiffLoop(cg, Tail(ranges),
         serializeRange(cg, Head(ranges)[1], Head(ranges)[2], entries))

serializeDiff(cg, ranges) == serializeDiffLoop(cg, ranges, <<>>)

\* mergePartialVersions adds the records one by one; when addRaw throws the
\* records before it stay added. Returns the graph and whether it threw.
RECURSIVE mergePartialVersions(_, _)
mergePartialVersions(cg, data) ==
  IF data = <<>> THEN [cg |-> cg, err |-> FALSE]
  ELSE LET added(r) == IF r.err THEN [cg |-> r.cg, err |-> TRUE]
                        ELSE mergePartialVersions(r.cg, Tail(data))
       IN added(addRaw(cg, <<Head(data).agent, Head(data).seq>>,
                       Head(data).len, Head(data).parents))

\* CausalGraph.mergePartialVersions: when addRemote throws, the records
\* before it stay added. range is the returned [start, nextLV).
RECURSIVE cgMergePartialVersionsLoop(_, _)
cgMergePartialVersionsLoop(cg, data) ==
  IF data = <<>> THEN [cg |-> cg, err |-> FALSE]
  ELSE LET added(r) == IF r.err THEN [cg |-> r.cg, err |-> TRUE]
                        ELSE cgMergePartialVersionsLoop(r.cg, Tail(data))
       IN added(addRemote(cg, <<Head(data).agent, Head(data).seq>>,
                          Head(data).len, Head(data).parents))

cgMergePartialVersions(cg, data) ==
  LET merged(m) ==
        [cg |-> m.cg, err |-> m.err, range |-> <<nextLV(cg), nextLV(m.cg)>>]
  IN merged(cgMergePartialVersionsLoop(cg, data))

\* ---- iterVersionsBetween: the list of entries the generator yields ----
\* The loop of iterVersionsBetween giving every piece the parents of the
\* stored entry.
RECURSIVE iterVersionsLoop_storedParents(_, _, _, _, _)
iterVersionsLoop_storedParents(cg, idx, vStart, vEnd, w) ==
  IF idx >= Len(cg.entries) THEN w
  ELSE LET entry == cg.entries[idx + 1]
           vLocalStart == max2(vStart, entry.version)
           vLocalEnd == min2(vEnd, entry.vEnd)
           whole == vStart <= entry.version /\ vEnd >= entry.vEnd
           piece == [version |-> vLocalStart, vEnd |-> vLocalEnd,
                     agent |-> entry.agent,
                     seq |-> entry.seq + (vLocalStart - entry.version),
                     parents |-> entry.parents]
       IN IF entry.version >= vEnd THEN w
          ELSE IF vLocalStart = vLocalEnd THEN [w EXCEPT !.err = TRUE]
          ELSE iterVersionsLoop_storedParents(cg, idx + 1, vStart, vEnd,
                 [w EXCEPT !.entries = Append(@, IF whole THEN entry ELSE piece)])

\* w = [entries, err]; err is the 'Invalid state' throw on an empty piece.
RECURSIVE iterVersionsLoop(_, _, _, _, _)
iterVersionsLoop(cg, idx, vStart, vEnd, w) ==
  IF idx >= Len(cg.entries) THEN w
  ELSE LET entry == cg.entries[idx + 1]
           vLocalStart == max2(vStart, entry.version)
           vLocalEnd == min2(vEnd, entry.vEnd)
           whole == vStart <= entry.version /\ vEnd >= entry.vEnd
           piece == [version |-> vLocalStart, vEnd |-> vLocalEnd,
                     agent |-> entry.agent,
                     seq |-> entry.seq + (vLocalStart - entry.version),
                     parents |-> IF vLocalStart = entry.version
                                   THEN entry.parents
                                   ELSE <<vLocalStart - 1>>]
       IN IF entry.version >= vEnd THEN w
          ELSE IF vLocalStart = vLocalEnd THEN [w EXCEPT !.err = TRUE]
          ELSE iterVersionsLoop(cg, idx + 1, vStart, vEnd,
                 [w EXCEPT !.entries = Append(@, IF whole THEN entry ELSE piece)])

\* err: 'Invalid or missing version'.
iterVersionsBetween(cg, vStart, vEnd) ==
  LET idx == bsRange(EntryRanges(cg), vStart, 0, Len(cg.entries) - 1)
  IN IF vStart = vEnd THEN [entries |-> <<>>, err |-> FALSE]
     ELSE IF idx < 0 THEN [entries |-> <<>>, err |-> TRUE]
     ELSE iterVersionsLoop(cg, idx, vStart, vEnd,
                           [entries |-> <<>>, err |-> FALSE])

\* ---- findConflicting ----
\* A TimePoint is [v, flag] with v sorted from highest to lowest.
sortDescending(v) == Reverse(sortVersions(v))

pointFromVersions(v, flag) ==
  [v |-> IF Len(v) <= 1 THEN v ELSE sortDescending(v), flag |-> flag]

\* The comparator of findConflicting's queue.
RECURSIVE timePointCmpFrom(_, _, _)
timePointCmpFrom(a, b, i) ==
  IF i > Len(a.v)
    THEN IF Len(a.v) < Len(b.v) THEN 0 - 1 ELSE a.flag - b.flag
  ELSE IF Len(b.v) < i THEN 1
  ELSE IF a.v[i] # b.v[i] THEN a.v[i] - b.v[i]
  ELSE timePointCmpFrom(a, b, i + 1)

timePointCmp(a, b) == timePointCmpFrom(a, b, 1)

RECURSIVE enqPoint(_, _)
enqPoint(queue, p) ==
  IF queue = <<>> THEN <<p>>
  ELSE IF timePointCmp(p, Head(queue)) >= 0 THEN <<p>> \o queue
  ELSE <<Head(queue)>> \o enqPoint(Tail(queue), p)

\* for (let i = 1; i < v.length; i++) queue.enq({v: [v[i]], flag})
RECURSIVE shatter(_, _, _, _)
shatter(queue, v, i, flag) ==
  IF i > Len(v) THEN queue
  ELSE shatter(enqPoint(queue, [v |-> <<v[i]>>, flag |-> flag]), v, i + 1, flag)

lvEq(a, b) == a = b

\* 'Discard duplicate entries': w = [queue, flag].
RECURSIVE conflictingDedup(_, _)
conflictingDedup(w, v) ==
  IF w.queue # <<>> /\ lvEq(v, Head(w.queue).v)
    THEN conflictingDedup(
           [queue |-> Tail(w.queue),
            flag |-> IF Head(w.queue).flag # w.flag THEN FlagShared ELSE w.flag],
           v)
    ELSE w

\* 'Consume all other changes within this txn': w = [queue, flag, end,
\* visits, done, result]. done is set when the queue runs empty and the
\* function returns [end - 1].
RECURSIVE conflictingTxn(_, _)
conflictingTxn(w, containingTxn) ==
  IF w.queue = <<>> THEN [w EXCEPT !.done = TRUE, !.result = <<w.end - 1>>]
  ELSE LET peek == Head(w.queue)
           peekV == peek.v
           peekLast == peekV[1]
           emit == peekLast + 1 < w.end
       IN IF Len(peekV) >= 1 /\ peekV[1] >= containingTxn.version
            THEN conflictingTxn(
                   [w EXCEPT
                      !.queue = shatter(Tail(w.queue), peekV, 2, peek.flag),
                      !.visits = IF emit
                                   THEN Append(@, <<<<peekLast + 1, w.end>>, w.flag>>)
                                   ELSE @,
                      !.end = IF emit THEN peekLast + 1 ELSE @,
                      !.flag = IF peek.flag # w.flag THEN FlagShared ELSE @],
                   containingTxn)
            ELSE [w EXCEPT
                    !.visits = Append(@, <<<<containingTxn.version, w.end>>, w.flag>>),
                    !.queue = enqPoint(w.queue,
                                pointFromVersions(containingTxn.parents, w.flag))]

\* w = [queue, visits]; the result is [result, visits].
RECURSIVE conflictingLoop(_, _)
conflictingLoop(cg, w) ==
  LET top == Head(w.queue)
      v == top.v
      d == conflictingDedup([queue |-> Tail(w.queue), flag |-> top.flag], v)
      queue1 == IF Len(v) > 1 THEN shatter(d.queue, v, 2, d.flag) ELSE d.queue
      t == v[1]
      containingTxn == findEntryContainingRaw(cg, t)[1]
      x == conflictingTxn([queue |-> queue1, flag |-> d.flag, end |-> t + 1,
                           visits |-> w.visits, done |-> FALSE, result |-> <<>>],
                          containingTxn)
  IN IF Len(v) = 0 THEN [result |-> <<>>, visits |-> w.visits]
     ELSE IF d.queue = <<>> THEN [result |-> Reverse(v), visits |-> w.visits]
     ELSE IF x.done THEN [result |-> x.result, visits |-> x.visits]
     ELSE conflictingLoop(cg, [queue |-> x.queue, visits |-> x.visits])

\* Returns the common ancestor and the list of visit(range, flag) calls.
findConflicting(cg, a, b) ==
  conflictingLoop(cg,
    [queue |-> enqPoint(enqPoint(<<>>, pointFromVersions(a, FlagA)),
                        pointFromVersions(b, FlagB)),
     visits |-> <<>>])

\* ---- oplog ----
createOpLog == [ops |-> <<>>, cg |-> createCG]

RECURSIVE pushInserts(_, _, _)
pushInserts(ops, pos, content) ==
  IF content = <<>> THEN ops
  ELSE pushInserts(Append(ops, [type |-> "ins", pos |-> pos,
                                content |-> Head(content)]),
                   pos + 1, Tail(content))

localInsert(oplog, agent, pos, content) ==
  LET added(r) ==
        IF r.err THEN [oplog |-> [oplog EXCEPT !.cg = r.cg], err |-> TRUE]
        ELSE [oplog |-> [ops |-> pushInserts(oplog.ops, pos, content),
                         cg |-> r.cg],
              err |-> FALSE]
      addAt(seq) ==
        added(add(oplog.cg, agent, seq, seq + Len(content), oplog.cg.heads))
  IN addAt(nextSeqForAgent(oplog.cg, agent))

\* Deletes at pos, pos + 1, ... instead of len times at pos.
RECURSIVE pushDeletes_advancing(_, _, _)
pushDeletes_advancing(ops, pos, len) ==
  IF len <= 0 THEN ops
  ELSE pushDeletes_advancing(Append(ops, [type |-> "del", pos |-> pos]),
                             pos + 1, len - 1)

RECURSIVE pushDeletes(_, _, _)
pushDeletes(ops, pos, len) ==
  IF len <= 0 THEN ops
  ELSE pushDeletes(Append(ops, [type |-> "del", pos |-> pos]), pos, len - 1)

\* err: 'Invalid delete length'.
localDelete(oplog, agent, pos, len) ==
  LET added(r) ==
        IF r.err THEN [oplog |-> [oplog EXCEPT !.cg = r.cg], err |-> TRUE]
        ELSE [oplog |-> [ops |-> pushDeletes(oplog.ops, pos, len), cg |-> r.cg],
              err |-> FALSE]
      addAt(seq) == added(add(oplog.cg, agent, seq, seq + len, oplog.cg.heads))
  IN IF len = 0 THEN [oplog |-> oplog, err |-> TRUE]
     ELSE addAt(nextSeqForAgent(oplog.cg, agent))

\* pushOp returns true / false, or throws (err) after addRaw has already
\* changed the causal graph. The optional argument content is <<>> when the
\* caller leaves it out.
pushOp(oplog, id, parents, type, pos, content) ==
  LET op == IF type = "ins"
              THEN [type |-> type, pos |-> pos, content |-> content[1]]
              ELSE [type |-> type, pos |-> pos]
      added(r) ==
        IF r.err
          THEN [oplog |-> [oplog EXCEPT !.cg = r.cg], ret |-> FALSE, err |-> TRUE]
        ELSE IF r.entry = <<>> THEN [oplog |-> oplog, ret |-> FALSE, err |-> FALSE]
        ELSE IF type = "ins" /\ content = <<>>
          THEN [oplog |-> [oplog EXCEPT !.cg = r.cg], ret |-> FALSE, err |-> TRUE]
        ELSE IF r.entry[1].version # Len(oplog.ops)
          THEN [oplog |-> [oplog EXCEPT !.cg = r.cg], ret |-> FALSE, err |-> TRUE]
        ELSE [oplog |-> [ops |-> Append(oplog.ops, op), cg |-> r.cg],
              ret |-> TRUE, err |-> FALSE]
  IN added(addRaw(oplog.cg, id, 1, parents))

getLatestVersion(oplog) == lvToRawList(oplog.cg, oplog.cg.heads)

\* dest.ops.push(src.ops[i]) for every i of every range; an index past the
\* end of src.ops pushes undefined.
\* Copies src.ops[i + 1] for the LV i.
RECURSIVE copyOps_shifted(_, _, _, _)
copyOps_shifted(destOps, srcOps, ranges, i) ==
  IF ranges = <<>> THEN destOps
  ELSE IF i >= Head(ranges)[2] THEN
    IF Len(ranges) = 1 THEN destOps
    ELSE copyOps_shifted(destOps, srcOps, Tail(ranges), Tail(ranges)[1][1])
  ELSE copyOps_shifted(Append(destOps, IF i + 1 < Len(srcOps) THEN srcOps[i + 2]
                                       ELSE [type |-> Undefined]),
                       srcOps, ranges, i + 1)

RECURSIVE copyOps(_, _, _, _)
copyOps(destOps, srcOps, ranges, i) ==
  IF ranges = <<>> THEN destOps
  ELSE IF i >= Head(ranges)[2] THEN
    IF Len(ranges) = 1 THEN destOps
    ELSE copyOps(destOps, srcOps, Tail(ranges), Tail(ranges)[1][1])
  ELSE copyOps(Append(destOps, IF i < Len(srcOps) THEN srcOps[i + 1]
                               ELSE [type |-> Undefined]),
               srcOps, ranges, i + 1)

\* Everything src holds, whatever dest knows already.
mergeRanges_all(dest, src) == diff(src.cg, <<>>, src.cg.heads).bOnly

\* ranges: the LVs of src that mergeOplogInto copies.
mergeRanges(dest, src) ==
  LET vs == summarizeVersion(dest.cg)
      commonVersion == intersectWithSummary(src.cg, vs)
  IN diff(src.cg, commonVersion, src.cg.heads).bOnly

mergeOplogInto(dest, src) ==
  LET mergeRangesInto(ranges) ==
        LET merged(m) ==
              IF m.err THEN [oplog |-> [dest EXCEPT !.cg = m.cg], err |-> TRUE]
              ELSE [oplog |-> [ops |-> IF ranges = <<>> THEN dest.ops
                                       ELSE copyOps(dest.ops, src.ops, ranges,
                                                    ranges[1][1]),
                               cg |-> m.cg],
                    err |-> FALSE]
        IN merged(mergePartialVersions(dest.cg, serializeDiff(src.cg, ranges)))
  IN mergeRangesInto(mergeRanges(dest, src))

\* ---- the oplog of index.ts: run-length encoded operations ----
\* An operation is {type: 'ins', pos, content: T[]} or {type: 'del', pos,
\* len}, stored with the version (LV) of its first element. The content
\* array of an insert is a JavaScript object that several operations can
\* share. The model keeps the arrays in a heap: heap[p][i] is the array that
\* was created for the i-th operation of peer p's list, and an insert holds
\* in content the address <<p, i>> of its array. A delete has content <<>>
\* and an insert has len 0.
createOpLogWithV == [ops |-> <<>>, cg |-> createCG]

contentOf(heap, op) == heap[op.content[1]][op.content[2]]

opLen(heap, op) == IF op.type = "ins" THEN Len(contentOf(heap, op)) ELSE op.len

OpRanges(oplog, heap) ==
  [i \in 1..Len(oplog.ops) |->
     <<oplog.ops[i].version, oplog.ops[i].version + opLen(heap, oplog.ops[i])>>]

findOpIndex(oplog, heap, lv) ==
  bsRange(OpRanges(oplog, heap), lv, 0, Len(oplog.ops) - 1)

tryMergeOpWithV(heap, a, b) ==
  IF a.type = "ins" /\ b.type = "ins"
    THEN /\ a.pos + opLen(heap, a) = b.pos
         /\ a.version + opLen(heap, a) = b.version
  ELSE IF a.type = "del" /\ b.type = "del"
    THEN /\ a.pos = b.pos
         /\ a.version + a.len = b.version
  ELSE FALSE

\* pushRLEList(tryMergeOpWithV, ops, b), on the list ops of peer p. An
\* insert b that shares an existing array holds its address; otherwise
\* b.content is <<>> and bContent is its new array, which gets the address
\* of the place b is pushed to. A merge pushes the elements of b onto the
\* array of the last operation, whoever else holds that array.
pushOpWithV(p, ops, heap, b, bContent) ==
  LET a == ops[Len(ops)]
      data == IF b.type # "ins" THEN <<>>
              ELSE IF b.content # <<>> THEN contentOf(heap, b) ELSE bContent
  IN IF ops # <<>> /\ tryMergeOpWithV(heap, a, b)
       THEN IF a.type = "ins"
              THEN [ops |-> ops,
                    heap |-> [heap EXCEPT ![a.content[1]][a.content[2]] =
                                            @ \o data]]
              ELSE [ops |-> [ops EXCEPT ![Len(ops)].len = a.len + b.len],
                    heap |-> heap]
     ELSE IF b.type = "ins" /\ b.content = <<>>
       THEN [ops |-> Append(ops, [b EXCEPT !.content = <<p, Len(ops) + 1>>]),
             heap |-> [heap EXCEPT ![p] = Append(@, bContent)]]
     ELSE [ops |-> Append(ops, b),
           heap |-> [heap EXCEPT ![p] = Append(@, <<>>)]]

\* err: assertEq(lenAdded, content.length) fails after the graph changed.
localInsertWithV(p, oplog, heap, agent, pos, content) ==
  LET version == nextLV(oplog.cg)
      added(r) ==
        IF r.err \/ r.len # Len(content)
          THEN [oplog |-> [oplog EXCEPT !.cg = r.cg], heap |-> heap, err |-> TRUE]
          ELSE LET pushed(q) == [oplog |-> [ops |-> q.ops, cg |-> r.cg],
                                 heap |-> q.heap, err |-> FALSE]
               IN pushed(pushOpWithV(p, oplog.ops, heap,
                           [type |-> "ins", pos |-> pos, content |-> <<>>,
                            len |-> 0, version |-> version], content))
      addAt(seq) == added(cgAdd(oplog.cg, agent, seq, seq + Len(content), <<>>))
  IN addAt(nextSeqForAgent(oplog.cg, agent))

\* err: 'Invalid delete length', or assertEq(lenAdded, len).
localDeleteWithV(p, oplog, heap, agent, pos, len) ==
  LET version == nextLV(oplog.cg)
      added(r) ==
        IF r.err \/ r.len # len
          THEN [oplog |-> [oplog EXCEPT !.cg = r.cg], heap |-> heap, err |-> TRUE]
          ELSE LET pushed(q) == [oplog |-> [ops |-> q.ops, cg |-> r.cg],
                                 heap |-> q.heap, err |-> FALSE]
               IN pushed(pushOpWithV(p, oplog.ops, heap,
                           [type |-> "del", pos |-> pos, content |-> <<>>,
                            len |-> len, version |-> version], <<>>))
      addAt(seq) == added(cgAdd(oplog.cg, agent, seq, seq + len, <<>>))
  IN IF len = 0 THEN [oplog |-> oplog, heap |-> heap, err |-> TRUE]
     ELSE addAt(nextSeqForAgent(oplog.cg, agent))

\* pushRemoteOp(oplog, id, parents, op): op is the caller's object, with
\* its content array op.content (a value here) and op.len. Returns ret, the
\* inserted length. err: assert(len > 0), an unknown parent, or the
\* assertion of the DBG block, which runs after addRemote changed the graph.
pushRemoteOp(p, oplog, heap, id, parents, op) ==
  LET len == IF op.type = "ins" THEN Len(op.content) ELSE op.len
      version == nextLV(oplog.cg)
      last == oplog.ops[Len(oplog.ops)]
      added(r) ==
        LET sliceAt == len - r.len
            content == IF op.type = "ins"
                         THEN SubSeq(op.content, sliceAt + 1, len) ELSE <<>>
            opWithV == [type |-> op.type,
                        pos |-> IF op.type = "ins" THEN op.pos + sliceAt
                                ELSE op.pos,
                        content |-> <<>>,
                        len |-> IF op.type = "del" THEN op.len - sliceAt ELSE 0,
                        version |-> version]
            pushed(q) == [oplog |-> [ops |-> q.ops, cg |-> r.cg],
                          heap |-> q.heap, ret |-> r.len, err |-> FALSE]
        IN IF r.err
             THEN [oplog |-> [oplog EXCEPT !.cg = r.cg], heap |-> heap,
                   ret |-> 0, err |-> TRUE]
           ELSE IF r.len = 0
             THEN [oplog |-> oplog, heap |-> heap, ret |-> 0, err |-> FALSE]
           ELSE IF oplog.ops # <<>> /\ last.version + opLen(heap, last) # version
             THEN [oplog |-> [oplog EXCEPT !.cg = r.cg], heap |-> heap,
                   ret |-> 0, err |-> TRUE]
           ELSE pushed(pushOpWithV(p, oplog.ops, heap, opWithV, content))
  IN IF ~(len > 0) THEN [oplog |-> oplog, heap |-> heap, ret |-> 0, err |-> TRUE]
     ELSE added(addRemote(oplog.cg, id, len, parents))

\* mergeOplogInto copies the operations that oplogIterRange(src, start, end)
\* yields; the generator runs in step with the pushes onto dest.ops. An
\* operation inside the range is yielded as it is and its copy { ...srcOp }
\* shares the content array; a trimmed one gets a new, sliced array.
\* st is [ops, heap, lv, err]: dest.ops, the heap and the next version.
RECURSIVE oplogIterRange(_, _, _, _, _, _)
oplogIterRange(p, st, src, idx, start, end) ==
  IF st.err \/ idx >= Len(src.ops) THEN st
  ELSE LET op == src.ops[idx + 1]
           len == opLen(st.heap, op)
           whole == op.version >= start /\ op.version + len <= end
           sliceStart == IF op.version < start THEN start - op.version ELSE 0
           sliceEnd == IF op.version + len > end THEN end - op.version ELSE len
           content == IF op.type = "ins"
                        THEN SubSeq(contentOf(st.heap, op), sliceStart + 1,
                                    sliceEnd)
                        ELSE <<>>
           destOp ==
             IF whole THEN [op EXCEPT !.version = st.lv]
             ELSE IF op.type = "del"
               THEN [op EXCEPT !.len = sliceEnd - sliceStart, !.version = st.lv]
             ELSE [op EXCEPT !.pos = op.pos + sliceStart, !.content = <<>>,
                             !.version = st.lv]
           pushed(q) ==
             [ops |-> q.ops, heap |-> q.heap,
              lv |-> st.lv + (IF whole THEN opLen(q.heap, op)
                              ELSE sliceEnd - sliceStart),
              err |-> FALSE]
       IN IF op.version >= end THEN st
          ELSE IF ~(op.version + len >= start) THEN [st EXCEPT !.err = TRUE]
          ELSE oplogIterRange(p, pushed(pushOpWithV(p, st.ops, st.heap, destOp,
                                                    content)),
                              src, idx + 1, start, end)

RECURSIVE copyOpsWithV(_, _, _, _)
copyOpsWithV(p, st, src, ranges) ==
  IF ranges = <<>> \/ st.err THEN st
  ELSE LET idx == findOpIndex(src, st.heap, Head(ranges)[1])
       IN copyOpsWithV(p, IF idx < 0 THEN st
                          ELSE oplogIterRange(p, st, src, idx, Head(ranges)[1],
                                              Head(ranges)[2]),
                       src, Tail(ranges))

\* p is the peer that holds dest.
mergeOplogIntoWithV(p, dest, src, heap) ==
  LET mergeRangesInto(ranges) ==
        LET merged(m) ==
              LET copied(st) == [oplog |-> [ops |-> st.ops, cg |-> m.cg],
                                 heap |-> st.heap, err |-> st.err]
              IN IF m.err THEN [oplog |-> [dest EXCEPT !.cg = m.cg],
                                heap |-> heap, err |-> TRUE]
                 ELSE copied(copyOpsWithV(p, [ops |-> dest.ops, heap |-> heap,
                                              lv |-> nextLV(m.cg), err |-> FALSE],
                                          src, ranges))
        IN merged(cgMergePartialVersions(dest.cg, serializeDiff(src.cg, ranges)))
  IN mergeRangesInto(mergeRanges(dest, src))

\* ---- replay: the edit context ----
NotYetInserted == 0 - 1
Inserted == 0
Deleted == 1

\* The first placeholder id (1e12 in the source): an id range no LV reaches.
PlaceholderStart == 1000

itemWidth(state) == IF state = Inserted THEN 1 ELSE 0

\* ctx.items.findIndex(i => i.opId === needle): a 0-based index or -1.
findIndex(items, needle) ==
  IF \E i \in 1..Len(items) : items[i].opId = needle
    THEN (CHOOSE i \in 1..Len(items) :
            /\ items[i].opId = needle
            /\ \A j \in 1..(i - 1) : items[j].opId # needle) - 1
    ELSE 0 - 1

\* ctx.itemsByLV holds the very objects of ctx.items, so an item is looked
\* up by its opId; -1 and LVs without an item give undefined.
itemsByLV(ctx, lv) == findIndex(ctx.items, lv)

\* advance1 that marks the item Deleted instead of counting the delete.
advance1_setDeleted(ctx, oplog, opId) ==
  IF opId >= Len(oplog.ops) THEN [ctx EXCEPT !.err = TRUE]
  ELSE LET op == oplog.ops[opId + 1]
           targetLV == IF op.type = "del" THEN ctx.delTargets[opId + 1] ELSE opId
           idx == itemsByLV(ctx, targetLV)
           item == ctx.items[idx + 1]
       IN IF idx < 0 THEN [ctx EXCEPT !.err = TRUE]
          ELSE IF op.type = "del"
            THEN IF item.curState >= Inserted /\ item.endState >= Deleted
                   THEN [ctx EXCEPT !.items[idx + 1].curState = Deleted]
                   ELSE [ctx EXCEPT !.err = TRUE]
          ELSE IF item.curState = NotYetInserted
            THEN [ctx EXCEPT !.items[idx + 1].curState = Inserted]
            ELSE [ctx EXCEPT !.err = TRUE]

\* advance1; err stands for the failed assertions and for the TypeError of
\* reading a field of undefined.
advance1(ctx, oplog, opId) ==
  IF opId >= Len(oplog.ops) THEN [ctx EXCEPT !.err = TRUE]
  ELSE LET op == oplog.ops[opId + 1]
           targetLV == IF op.type = "del" THEN ctx.delTargets[opId + 1] ELSE opId
           idx == itemsByLV(ctx, targetLV)
           item == ctx.items[idx + 1]
       IN IF idx < 0 THEN [ctx EXCEPT !.err = TRUE]
          ELSE IF op.type = "del"
            THEN IF item.curState >= Inserted /\ item.endState >= Deleted
                   THEN [ctx EXCEPT !.items[idx + 1].curState = @ + 1]
                   ELSE [ctx EXCEPT !.err = TRUE]
          ELSE IF item.curState = NotYetInserted
            THEN [ctx EXCEPT !.items[idx + 1].curState = Inserted]
            ELSE [ctx EXCEPT !.err = TRUE]

\* retreat1 without its assertions.
retreat1_unchecked(ctx, oplog, opId) ==
  IF opId >= Len(oplog.ops) THEN [ctx EXCEPT !.err = TRUE]
  ELSE LET op == oplog.ops[opId + 1]
           targetLV == IF op.type = "del" THEN ctx.delTargets[opId + 1] ELSE opId
           idx == itemsByLV(ctx, targetLV)
       IN IF idx < 0 THEN [ctx EXCEPT !.err = TRUE]
          ELSE [ctx EXCEPT !.items[idx + 1].curState = @ - 1]

retreat1(ctx, oplog, opId) ==
  IF opId >= Len(oplog.ops) THEN [ctx EXCEPT !.err = TRUE]
  ELSE LET op == oplog.ops[opId + 1]
           targetLV == IF op.type = "del" THEN ctx.delTargets[opId + 1] ELSE opId
           idx == itemsByLV(ctx, targetLV)
           item == ctx.items[idx + 1]
           ok == IF op.type = "del"
                   THEN item.curState >= Deleted /\ item.endState >= Deleted
                   ELSE item.curState = Inserted
       IN IF idx < 0 \/ ~ok THEN [ctx EXCEPT !.err = TRUE]
          ELSE [ctx EXCEPT !.items[idx + 1].curState = @ - 1]

\* findByCurPos: c = [idx, endPos, curPos, err].
RECURSIVE findByCurPosLoop(_, _, _)
findByCurPosLoop(ctx, targetPos, c) ==
  IF c.curPos >= targetPos THEN c
  ELSE IF c.idx >= Len(ctx.items) THEN [c EXCEPT !.err = TRUE]
  ELSE LET item == ctx.items[c.idx + 1]
       IN findByCurPosLoop(ctx, targetPos,
            [idx |-> c.idx + 1,
             endPos |-> c.endPos + itemWidth(item.endState),
             curPos |-> c.curPos + itemWidth(item.curState),
             err |-> FALSE])

findByCurPos(ctx, targetPos) ==
  findByCurPosLoop(ctx, targetPos,
                   [idx |-> 0, endPos |-> 0, curPos |-> 0, err |-> FALSE])

\* The while loop of apply1's delete branch: skip to the next Inserted item.
RECURSIVE skipToInserted(_, _)
skipToInserted(ctx, c) ==
  IF c.idx >= Len(ctx.items) THEN [c EXCEPT !.err = TRUE]
  ELSE IF ctx.items[c.idx + 1].curState # Inserted
    THEN skipToInserted(ctx,
           [c EXCEPT !.idx = @ + 1,
                     !.endPos = @ + itemWidth(ctx.items[c.idx + 1].endState)])
  ELSE c

\* The scan loop of integrate. The cursor is c = [idx, endPos, err];
\* k = [idx, endPos, scanning, scanIdx, scanEndPos, err].
RECURSIVE integrateLoop(_, _, _, _, _, _)
integrateLoop(ctx, cg, newItem, leftIdx, rightIdx, k) ==
  IF k.scanIdx >= Len(ctx.items) THEN k
  ELSE LET other == ctx.items[k.scanIdx + 1]
           oleftIdx == IF other.originLeft = 0 - 1 THEN 0 - 1
                       ELSE findIndex(ctx.items, other.originLeft)
           orightIdx == IF other.rightParent = 0 - 1 THEN Len(ctx.items)
                        ELSE findIndex(ctx.items, other.rightParent)
           oleftMissing == other.originLeft # 0 - 1 /\ oleftIdx < 0
           orightMissing == other.rightParent # 0 - 1 /\ orightIdx < 0
           scanning == IF oleftIdx = leftIdx THEN orightIdx < rightIdx
                       ELSE k.scanning
           next == [idx |-> IF scanning THEN k.idx ELSE k.scanIdx + 1,
                    endPos |-> IF scanning THEN k.endPos
                               ELSE k.scanEndPos + itemWidth(other.endState),
                    scanning |-> scanning,
                    scanIdx |-> k.scanIdx + 1,
                    scanEndPos |-> k.scanEndPos + itemWidth(other.endState),
                    err |-> FALSE]
       IN IF other.curState # NotYetInserted THEN k
          ELSE IF other.opId = newItem.rightParent \/ oleftMissing
            THEN [k EXCEPT !.err = TRUE]
          ELSE IF oleftIdx < leftIdx THEN k
          ELSE IF oleftIdx = leftIdx /\ orightMissing THEN [k EXCEPT !.err = TRUE]
          ELSE IF /\ oleftIdx = leftIdx
                  /\ orightIdx = rightIdx
                  /\ lvCmp(cg, newItem.opId, other.opId) < 0 THEN k
          ELSE integrateLoop(ctx, cg, newItem, leftIdx, rightIdx, next)

\* integrate returns the moved cursor [idx, endPos, err].
integrate(ctx, cg, newItem, cursor) ==
  LET rightIdx == IF newItem.rightParent = 0 - 1 THEN Len(ctx.items)
                  ELSE findIndex(ctx.items, newItem.rightParent)
      k == integrateLoop(ctx, cg, newItem, cursor.idx - 1, rightIdx,
             [idx |-> cursor.idx, endPos |-> cursor.endPos, scanning |-> FALSE,
              scanIdx |-> cursor.idx, scanEndPos |-> cursor.endPos,
              err |-> FALSE])
  IN IF \/ cursor.idx >= Len(ctx.items)
        \/ ctx.items[cursor.idx + 1].curState # NotYetInserted
       THEN [idx |-> cursor.idx, endPos |-> cursor.endPos, err |-> FALSE]
     ELSE IF rightIdx < 0
       THEN [idx |-> cursor.idx, endPos |-> cursor.endPos, err |-> TRUE]
     ELSE [idx |-> k.idx, endPos |-> k.endPos, err |-> k.err]

\* 'Scan to find the newly inserted item's right parent'.
RECURSIVE findRightParent(_, _, _)
findRightParent(items, i, originLeft) ==
  IF i >= Len(items) THEN 0 - 1
  ELSE IF items[i + 1].curState # NotYetInserted
    THEN IF items[i + 1].originLeft = originLeft THEN items[i + 1].opId
         ELSE 0 - 1
  ELSE findRightParent(items, i + 1, originLeft)

\* apply1. ctx carries the snapshot being written; withSnapshot is false
\* when the caller passes null for it.
\* apply1's delete branch without the test that the item is still in the
\* document: every delete removes an element of the snapshot.
apply1Delete_spliceAlways(ctx, withSnapshot, op, opId) ==
  LET c0 == findByCurPos(ctx, op.pos)
      cursor == skipToInserted(ctx, c0)
      item == ctx.items[cursor.idx + 1]
  IN IF c0.err \/ cursor.err THEN [ctx EXCEPT !.err = TRUE]
     ELSE [ctx EXCEPT
             !.snapshot = IF withSnapshot
                            THEN SpliceOut(@, cursor.endPos) ELSE @,
             !.items[cursor.idx + 1].curState = Deleted,
             !.items[cursor.idx + 1].endState = Deleted,
             !.delTargets[opId + 1] = item.opId]

apply1Delete(ctx, withSnapshot, op, opId) ==
  LET c0 == findByCurPos(ctx, op.pos)
      cursor == skipToInserted(ctx, c0)
      item == ctx.items[cursor.idx + 1]
  IN IF c0.err \/ cursor.err THEN [ctx EXCEPT !.err = TRUE]
     ELSE [ctx EXCEPT
             !.snapshot = IF item.endState = Inserted /\ withSnapshot
                            THEN SpliceOut(@, cursor.endPos) ELSE @,
             !.items[cursor.idx + 1].curState = Deleted,
             !.items[cursor.idx + 1].endState = Deleted,
             !.delTargets[opId + 1] = item.opId]

\* apply1's insert putting the content at the output position found
\* before the integration moved the cursor.
apply1Insert_beforeIntegrate(ctx, withSnapshot, oplog, op, opId) ==
  LET c0 == findByCurPos(ctx, op.pos)
      originLeft == IF c0.idx = 0 THEN 0 - 1 ELSE ctx.items[c0.idx].opId
      rightParent == findRightParent(ctx.items, c0.idx, originLeft)
      newItem == [opId |-> opId, curState |-> Inserted, endState |-> Inserted,
                  originLeft |-> originLeft, rightParent |-> rightParent]
      cursor == integrate(ctx, oplog.cg, newItem, c0)
  IN IF c0.err THEN [ctx EXCEPT !.err = TRUE]
     ELSE IF c0.idx > 0 /\ ctx.items[c0.idx].curState # Inserted
       THEN [ctx EXCEPT !.err = TRUE]
     ELSE IF cursor.err THEN [ctx EXCEPT !.err = TRUE]
     ELSE [ctx EXCEPT
             !.items = SpliceIn(@, cursor.idx, newItem),
             !.snapshot = IF withSnapshot
                            THEN SpliceIn(@, c0.endPos, op.content) ELSE @]


apply1Insert(ctx, withSnapshot, oplog, op, opId) ==
  LET c0 == findByCurPos(ctx, op.pos)
      originLeft == IF c0.idx = 0 THEN 0 - 1 ELSE ctx.items[c0.idx].opId
      rightParent == findRightParent(ctx.items, c0.idx, originLeft)
      newItem == [opId |-> opId, curState |-> Inserted, endState |-> Inserted,
                  originLeft |-> originLeft, rightParent |-> rightParent]
      cursor == integrate(ctx, oplog.cg, newItem, c0)
  IN IF c0.err THEN [ctx EXCEPT !.err = TRUE]
     ELSE IF c0.idx > 0 /\ ctx.items[c0.idx].curState # Inserted
       THEN [ctx EXCEPT !.err = TRUE]
     ELSE IF cursor.err THEN [ctx EXCEPT !.err = TRUE]
     ELSE [ctx EXCEPT
             !.items = SpliceIn(@, cursor.idx, newItem),
             !.snapshot = IF withSnapshot
                            THEN SpliceIn(@, cursor.endPos, op.content) ELSE @]

apply1(ctx, withSnapshot, oplog, opId) ==
  IF opId >= Len(oplog.ops) THEN [ctx EXCEPT !.err = TRUE]
  ELSE LET op == oplog.ops[opId + 1]
       IN IF op.type = "del" THEN apply1Delete(ctx, withSnapshot, op, opId)
          ELSE IF op.type = "ins"
            THEN apply1Insert(ctx, withSnapshot, oplog, op, opId)
          ELSE [ctx EXCEPT !.err = TRUE]

\* ---- traverseAndApply ----
\* The retreat loop of a range running from its first LV up to its last.
RECURSIVE retreatRange_ascending(_, _, _, _)
retreatRange_ascending(ctx, oplog, start, lv) ==
  IF ctx.err \/ lv < start THEN ctx
  ELSE retreatRange_ascending(retreat1(ctx, oplog, start), oplog, start + 1, lv)

\* for (let lv = end - 1; lv >= start; lv--) retreat1(ctx, oplog, lv)
RECURSIVE retreatRange(_, _, _, _)
retreatRange(ctx, oplog, start, lv) ==
  IF ctx.err \/ lv < start THEN ctx
  ELSE retreatRange(retreat1(ctx, oplog, lv), oplog, start, lv - 1)

\* A replay that moves on without retreating.
retreatAll_none(ctx, oplog, retreat, i) == ctx

\* for (let i = retreat.length - 1; i >= 0; i--) ...
RECURSIVE retreatAll(_, _, _, _)
retreatAll(ctx, oplog, retreat, i) ==
  IF ctx.err \/ i < 1 THEN ctx
  ELSE retreatAll(retreatRange(ctx, oplog, retreat[i][1], retreat[i][2] - 1),
                  oplog, retreat, i - 1)

\* The advance loop of a range taking its end for inclusive.
RECURSIVE advanceRange_inclusive(_, _, _, _)
advanceRange_inclusive(ctx, oplog, lv, end) ==
  IF ctx.err \/ lv > end THEN ctx
  ELSE advanceRange_inclusive(advance1(ctx, oplog, lv), oplog, lv + 1, end)

RECURSIVE advanceRange(_, _, _, _)
advanceRange(ctx, oplog, lv, end) ==
  IF ctx.err \/ lv >= end THEN ctx
  ELSE advanceRange(advance1(ctx, oplog, lv), oplog, lv + 1, end)

RECURSIVE advanceAll(_, _, _)
advanceAll(ctx, oplog, advance) ==
  IF ctx.err \/ advance = <<>> THEN ctx
  ELSE advanceAll(advanceRange(ctx, oplog, Head(advance)[1], Head(advance)[2]),
                  oplog, Tail(advance))

RECURSIVE applyRange(_, _, _, _, _)
applyRange(ctx, withSnapshot, oplog, lv, end) ==
  IF ctx.err \/ lv >= end THEN ctx
  ELSE applyRange(apply1(ctx, withSnapshot, oplog, lv), withSnapshot, oplog,
                  lv + 1, end)

\* The body of traverseAndApply's loop for one entry.
traverseEntry(ctx, withSnapshot, oplog, entry) ==
  LET done(applied) ==
        IF applied.err THEN applied
        ELSE [applied EXCEPT !.curVersion = <<entry.vEnd - 1>>]
      moveAndApply(d) ==
        IF d.err THEN [ctx EXCEPT !.err = TRUE]
        ELSE done(applyRange(
                    advanceAll(retreatAll(ctx, oplog, d.aOnly, Len(d.aOnly)),
                               oplog, d.bOnly),
                    withSnapshot, oplog, entry.version, entry.vEnd))
  IN moveAndApply(diff(oplog.cg, ctx.curVersion, entry.parents))

RECURSIVE traverseEntries(_, _, _, _)
traverseEntries(ctx, withSnapshot, oplog, entries) ==
  IF ctx.err \/ entries = <<>> THEN ctx
  ELSE traverseEntries(traverseEntry(ctx, withSnapshot, oplog, Head(entries)),
                       withSnapshot, oplog, Tail(entries))

traverseAndApply(ctx, withSnapshot, oplog, fromOp, toOp) ==
  LET traversed(it, done) == IF it.err THEN [done EXCEPT !.err = TRUE] ELSE done
      traverse(it) ==
        traversed(it, traverseEntries(ctx, withSnapshot, oplog, it.entries))
  IN IF ctx.err THEN ctx
     ELSE traverse(iterVersionsBetween(oplog.cg, fromOp, toOp))

\* ---- branches ----
createEmptyBranch == [snapshot |-> <<>>, version |-> <<>>]

createEditContext(oplog, curVersion, items, snapshot) ==
  [items |-> items,
   delTargets |-> [i \in 1..Len(oplog.ops) |-> 0 - 1],
   curVersion |-> curVersion,
   snapshot |-> snapshot,
   err |-> FALSE]

\* The edit context checkout ends with (its snapshot is the result).
checkoutCtx(oplog) ==
  traverseAndApply(createEditContext(oplog, <<>>, <<>>, <<>>), TRUE, oplog,
                   0, nextLV(oplog.cg))

checkout(oplog) ==
  LET result(ctx) ==
        [branch |-> [snapshot |-> ctx.snapshot, version |-> oplog.cg.heads],
         err |-> ctx.err]
  IN result(checkoutCtx(oplog))

checkoutSimple(oplog) == checkout(oplog).branch.snapshot

\* ---- mergeChangesIntoBranch ----
\* The visitor with the test on the flag turned around: only the spans of
\* flag A go to conflictOps.
RECURSIVE collectVisits_sharedAsNew(_, _)
collectVisits_sharedAsNew(visits, w) ==
  IF visits = <<>> THEN w
  ELSE LET span == Head(visits)[1]
           flag == Head(visits)[2]
       IN collectVisits_sharedAsNew(Tail(visits),
            IF flag # FlagA
              THEN [w EXCEPT !.newOps = pushReversedRLE(@, span[1], span[2])]
              ELSE [w EXCEPT !.conflictOps = pushReversedRLE(@, span[1], span[2])])

\* The visitor: spans arrive in descending order and are run-length merged
\* into newOps (flag B) or conflictOps (flags A and Shared).
RECURSIVE collectVisits(_, _)
collectVisits(visits, w) ==
  IF visits = <<>> THEN w
  ELSE LET span == Head(visits)[1]
           flag == Head(visits)[2]
       IN collectVisits(Tail(visits),
            IF flag = FlagB
              THEN [w EXCEPT !.newOps = pushReversedRLE(@, span[1], span[2])]
              ELSE [w EXCEPT !.conflictOps = pushReversedRLE(@, span[1], span[2])])

\* Math.max(...version), for a non-empty list.
RECURSIVE MathMax(_)
MathMax(version) ==
  IF Len(version) = 1 THEN version[1]
  ELSE max2(Head(version), MathMax(Tail(version)))

\* One placeholder too few: Math.max(...branch.version) without the + 1.
placeholderLength_short(version) ==
  IF version = <<>> THEN 0 ELSE MathMax(version)

\* Math.max of an empty list is -Infinity, so the loop adds no placeholder.
placeholderLength(version) ==
  IF version = <<>> THEN 0 ELSE MathMax(version) + 1

\* Placeholders that take no place in the output document.
placeholderItems_notInOutput(n) ==
  [i \in 1..n |-> [opId |-> (i - 1) + PlaceholderStart, curState |-> Inserted,
                   endState |-> Deleted, originLeft |-> 0 - 1,
                   rightParent |-> 0 - 1]]

placeholderItems(n) ==
  [i \in 1..n |-> [opId |-> (i - 1) + PlaceholderStart, curState |-> Inserted,
                   endState |-> Inserted, originLeft |-> 0 - 1,
                   rightParent |-> 0 - 1]]

RECURSIVE traverseRanges(_, _, _, _)
traverseRanges(ctx, withSnapshot, oplog, ranges) ==
  IF ctx.err \/ ranges = <<>> THEN ctx
  ELSE traverseRanges(
         traverseAndApply(ctx, withSnapshot, oplog, Head(ranges)[1],
                          Head(ranges)[2]),
         withSnapshot, oplog, Tail(ranges))

\* The split of findConflicting's visits into the two ascending lists.
conflictSplit(oplog, version, mergeVersion) ==
  LET split(fc, w) ==
        [commonAncestor |-> fc.result, newOps |-> Reverse(w.newOps),
         conflictOps |-> Reverse(w.conflictOps)]
      collect(fc) ==
        split(fc, collectVisits(fc.visits, [newOps |-> <<>>, conflictOps |-> <<>>]))
  IN collect(findConflicting(oplog.cg, version, mergeVersion))

\* The edit context at the end of mergeChangesIntoBranch's replay.
mergeCtx(branch, oplog, mergeVersion) ==
  LET replay(cs) ==
        traverseRanges(
          traverseRanges(
            createEditContext(oplog, cs.commonAncestor,
              placeholderItems(placeholderLength(branch.version)),
              branch.snapshot),
            FALSE, oplog, cs.conflictOps),
          TRUE, oplog, cs.newOps)
  IN replay(conflictSplit(oplog, branch.version, mergeVersion))

\* The merge that sets branch.version to the two versions put together.
mergeChangesIntoBranch_bothVersions(branch, oplog, mergeVersion) ==
  LET merged(ctx) ==
        IF ctx.err
          THEN [branch |-> [branch EXCEPT !.snapshot = ctx.snapshot],
                err |-> TRUE]
          ELSE [branch |-> [snapshot |-> ctx.snapshot,
                            version |-> branch.version \o mergeVersion],
                err |-> FALSE]
  IN merged(mergeCtx(branch, oplog, mergeVersion))

\* branch.snapshot is edited in place, so it keeps the edits made before a
\* throw; branch.version is only assigned at the end.
mergeChangesIntoBranch(branch, oplog, mergeVersion) ==
  LET merged(ctx) ==
        IF ctx.err
          THEN [branch |-> [branch EXCEPT !.snapshot = ctx.snapshot],
                err |-> TRUE]
          ELSE [branch |-> [snapshot |-> ctx.snapshot,
                            version |-> findDominators(oplog.cg,
                                          branch.version \o mergeVersion)],
                err |-> FALSE]
  IN merged(mergeCtx(branch, oplog, mergeVersion))

\* ================= src/oplog.ts: the replay with originRight =================
\* An item of this replay is [opId (its lv), curState, endState, originLeft,
\* originRight]; advance1, retreat1, findByCurPos and the delete branch of
\* apply1 read as in the simple replay. Operations are the oplog's, "ins"
\* and "del" standing for ListOpType.Ins and ListOpType.Del.

\* The scan for originRight: the index of the next item that is not
\* NotYetInserted, or items.length.
RECURSIVE findRightIdx(_, _)
findRightIdx(items, rightIdx) ==
  IF rightIdx >= Len(items) THEN rightIdx
  ELSE IF items[rightIdx + 1].curState # NotYetInserted THEN rightIdx
  ELSE findRightIdx(items, rightIdx + 1)

\* The for loop of integrateYjsMod; k = [idx, endPos, scanning, scanIdx,
\* err]. scanEndPos is never advanced, so the cursor keeps its endPos.
RECURSIVE integrateYjsModLoop(_, _, _, _, _, _)
integrateYjsModLoop(ctx, cg, newItem, leftIdx, rightIdx, k) ==
  LET c == IF k.scanning THEN k ELSE [k EXCEPT !.idx = k.scanIdx]
      other == ctx.items[c.scanIdx + 1]
      oleftIdx == IF other.originLeft = 0 - 1 THEN 0 - 1
                  ELSE findIndex(ctx.items, other.originLeft)
      orightIdx == IF other.originRight = 0 - 1 THEN Len(ctx.items)
                   ELSE findIndex(ctx.items, other.originRight)
      missing == \/ other.originLeft # 0 - 1 /\ oleftIdx < 0
                 \/ other.originRight # 0 - 1 /\ orightIdx < 0
      step(scanning) == [c EXCEPT !.scanning = scanning, !.scanIdx = @ + 1]
  IN IF c.scanIdx = Len(ctx.items) THEN c
     ELSE IF other.opId = newItem.originRight THEN c
     ELSE IF missing THEN [c EXCEPT !.err = TRUE]
     ELSE IF oleftIdx < leftIdx THEN c
     ELSE IF oleftIdx = leftIdx
       THEN IF orightIdx < rightIdx
              THEN integrateYjsModLoop(ctx, cg, newItem, leftIdx, rightIdx,
                                       step(TRUE))
            ELSE IF orightIdx = rightIdx
              THEN IF lvCmp(cg, newItem.opId, other.opId) > 0 THEN c
                   ELSE integrateYjsModLoop(ctx, cg, newItem, leftIdx,
                                            rightIdx, step(FALSE))
            ELSE integrateYjsModLoop(ctx, cg, newItem, leftIdx, rightIdx,
                                     step(FALSE))
     ELSE integrateYjsModLoop(ctx, cg, newItem, leftIdx, rightIdx,
                              step(c.scanning))

\* integrateYjsMod returns the moved cursor [idx, endPos, err].
integrateYjsMod(ctx, cg, newItem, cursor, rightIdx) ==
  LET k == integrateYjsModLoop(ctx, cg, newItem, cursor.idx - 1, rightIdx,
             [idx |-> cursor.idx, endPos |-> cursor.endPos,
              scanning |-> FALSE, scanIdx |-> cursor.idx, err |-> FALSE])
  IN IF cursor.idx = rightIdx
       THEN [idx |-> cursor.idx, endPos |-> cursor.endPos, err |-> FALSE]
       ELSE [idx |-> k.idx, endPos |-> k.endPos, err |-> k.err]

\* apply1 of src/oplog.ts, which always writes to dest (ctx.snapshot).
oplogApply1(ctx, oplog, lv) ==
  IF lv >= Len(oplog.ops) THEN [ctx EXCEPT !.err = TRUE]
  ELSE
    LET op == oplog.ops[lv + 1]
        c0 == findByCurPos(ctx, op.pos)
        originLeft == IF c0.idx = 0 THEN 0 - 1 ELSE ctx.items[c0.idx].opId
        rightIdx == findRightIdx(ctx.items, c0.idx)
        originRight == IF rightIdx < Len(ctx.items)
                         THEN ctx.items[rightIdx + 1].opId ELSE 0 - 1
        newItem == [opId |-> lv, curState |-> Inserted, endState |-> Inserted,
                    originLeft |-> originLeft, originRight |-> originRight]
        cursor == integrateYjsMod(ctx, oplog.cg, newItem, c0, rightIdx)
    IN IF op.type = "del" THEN apply1Delete(ctx, TRUE, op, lv)
       ELSE IF c0.err THEN [ctx EXCEPT !.err = TRUE]
       ELSE IF c0.idx > 0 /\ ctx.items[c0.idx].curState # Inserted
         THEN [ctx EXCEPT !.err = TRUE]
       ELSE IF cursor.err THEN [ctx EXCEPT !.err = TRUE]
       ELSE [ctx EXCEPT !.items = SpliceIn(@, cursor.idx, newItem),
                        !.snapshot = SpliceIn(@, cursor.endPos, op.content)]

RECURSIVE oplogApplyRange(_, _, _, _)
oplogApplyRange(ctx, oplog, lv, end) ==
  IF ctx.err \/ lv >= end THEN ctx
  ELSE oplogApplyRange(oplogApply1(ctx, oplog, lv), oplog, lv + 1, end)

\* The plan walkCG yields for the entry s when the walk stands at curLV.
walkCG(cg, s, curLV) ==
  LET d == diff(cg, <<curLV>>, s.parents)
  IN IF \/ s.parents = <<>> /\ curLV = 0 - 1
        \/ Len(s.parents) = 1 /\ curLV = s.parents[1]
       THEN [retreat |-> <<>>, advance |-> <<>>,
             consume |-> <<s.version, s.vEnd>>, err |-> FALSE]
       ELSE [retreat |-> d.aOnly, advance |-> d.bOnly,
             consume |-> <<s.version, s.vEnd>>, err |-> d.err]

\* The loop of mergeString over the plan.
RECURSIVE mergeStringLoop(_, _, _, _)
mergeStringLoop(ctx, oplog, entries, curLV) ==
  IF ctx.err \/ entries = <<>> THEN ctx
  ELSE LET w == walkCG(oplog.cg, Head(entries), curLV)
           retreated == retreatAll(ctx, oplog, w.retreat, Len(w.retreat))
           advanced == advanceAll(retreated, oplog, w.advance)
           applied == oplogApplyRange(advanced, oplog, w.consume[1],
                                      w.consume[2])
       IN IF w.err THEN [ctx EXCEPT !.err = TRUE]
          ELSE mergeStringLoop(applied, oplog, Tail(entries),
                               Head(entries).vEnd - 1)

\* mergeString: the edit context at the end; its snapshot is dest.
mergeString(oplog) ==
  mergeStringLoop(createEditContext(oplog, <<>>, <<>>, <<>>), oplog,
                  oplog.cg.entries, 0 - 1)

\* ================= checkoutSimple beside the reference Fugue list ==========
\* The replay that feeds every applied operation to a reference list
\* (fugue.receivePrimitive) and compares the two documents at the end.

\* The plan walkCG yields for one entry when the walk stands at curLV.
walkItem(cg, entry, curLV) ==
  LET plan(d) == [retreat |-> d.aOnly, advance |-> d.bOnly,
                  consume |-> <<entry.version, entry.vEnd>>, err |-> d.err]
  IN IF lvEq(curLV, entry.parents)
       THEN [retreat |-> <<>>, advance |-> <<>>,
             consume |-> <<entry.version, entry.vEnd>>, err |-> FALSE]
       ELSE plan(diff(cg, curLV, entry.parents))

\* Takes the item at the cursor, also when it is not yet inserted.
tempOriginRight_any(items, i) ==
  IF i >= Len(items) THEN 0 - 1 ELSE items[i + 1].opId

\* 'originRight is the ID of the next item which isn't in the NYI curState'.
RECURSIVE tempOriginRight(_, _)
tempOriginRight(items, i) ==
  IF i >= Len(items) THEN 0 - 1
  ELSE IF items[i + 1].curState # NotYetInserted THEN items[i + 1].opId
  ELSE tempOriginRight(items, i + 1)

\* The ids of the ends of the reference list (fugue.start.id, fugue.end.id);
\* no agent is called 0.
FugueStart == <<0, 0>>
FugueEnd == <<0, 1>>

opIdToFugueId(oplog, id, ifNull) ==
  IF id = 0 - 1 THEN ifNull ELSE lvToRaw(oplog.cg, id)

\* The primitive apply1 sends for opId: before and after are the edit
\* contexts around the call.
fuguePrimitive(before, after, oplog, opId) ==
  LET op == oplog.ops[opId + 1]
      cursor == findByCurPos(before, op.pos)
      originLeft == IF cursor.idx = 0 THEN 0 - 1
                    ELSE before.items[cursor.idx].opId
  IN IF op.type = "del"
       THEN [type |-> "delete",
             id |-> opIdToFugueId(oplog, after.delTargets[opId + 1], FugueEnd),
             leftOrigin |-> FugueStart, rightOrigin |-> FugueEnd, value |-> 0]
       ELSE [type |-> "insert",
             id |-> opIdToFugueId(oplog, opId, FugueEnd),
             leftOrigin |-> opIdToFugueId(oplog, originLeft, FugueStart),
             rightOrigin |->
               opIdToFugueId(oplog, tempOriginRight(before.items, cursor.idx),
                             FugueEnd),
             value |-> op.content]

\* st = [ctx, fed]: the edit context and the primitives sent so far.
apply1Fugue(st, oplog, opId) ==
  LET sent(ctx) ==
        [ctx |-> ctx,
         fed |-> IF ctx.err THEN st.fed
                 ELSE Append(st.fed, fuguePrimitive(st.ctx, ctx, oplog, opId))]
  IN sent(apply1(st.ctx, TRUE, oplog, opId))

RECURSIVE applyRangeFugue(_, _, _, _)
applyRangeFugue(st, oplog, lv, end) ==
  IF st.ctx.err \/ lv >= end THEN st
  ELSE applyRangeFugue(apply1Fugue(st, oplog, lv), oplog, lv + 1, end)

\* The loop of walkBetween2 over the entries of the graph.
RECURSIVE walkBetween2(_, _, _, _)
walkBetween2(st, oplog, entries, curLV) ==
  IF st.ctx.err \/ entries = <<>> THEN st
  ELSE LET consume(w) ==
             IF w.err THEN [st EXCEPT !.ctx.err = TRUE]
             ELSE applyRangeFugue(
                    [st EXCEPT !.ctx =
                       advanceAll(retreatAll(st.ctx, oplog, w.retreat,
                                             Len(w.retreat)),
                                  oplog, w.advance)],
                    oplog, w.consume[1], w.consume[2])
       IN walkBetween2(consume(walkItem(oplog.cg, Head(entries), curLV)),
                       oplog, Tail(entries), <<Head(entries).vEnd - 1>>)

\* walkBetween from the empty context: the document (ctx.snapshot) and what
\* the reference list was sent.
walkBetween(oplog) ==
  LET walk(it) ==
        IF it.err
          THEN [ctx |-> [createEditContext(oplog, <<>>, <<>>, <<>>)
                           EXCEPT !.err = TRUE],
                fed |-> <<>>]
          ELSE walkBetween2([ctx |-> createEditContext(oplog, <<>>, <<>>, <<>>),
                             fed |-> <<>>],
                            oplog, it.entries, <<>>)
  IN walk(iterVersionsBetween(oplog.cg, 0, nextLV(oplog.cg)))

\* ---- the reference Fugue list ----
\* A plain list CRDT without versions: every element it was sent is in the
\* list, deleted ones as tombstones. An insert names its left origin and the
\* concrete right neighbour it was typed before; the right parent is that
\* neighbour when it has the same left origin. The place is chosen by the
\* integration rule, the scan bounded by the right neighbour.
RECURSIVE fugueIndexFrom(_, _, _)
fugueIndexFrom(list, id, i) ==
  IF i >= Len(list) THEN 0 - 1
  ELSE IF list[i + 1].id = id THEN i
  ELSE fugueIndexFrom(list, id, i + 1)

fugueIndex(list, id) == fugueIndexFrom(list, id, 0)

\* (agent, seq) compared lexicographically.
fugueIdLess(a, b) == a[1] < b[1] \/ (a[1] = b[1] /\ a[2] < b[2])

\* k = [idx, scanning, scanIdx]: the committed place, the mode, the scan.
RECURSIVE fugueScan(_, _, _, _, _, _)
fugueScan(list, id, leftIdx, rightIdx, bound, k) ==
  IF k.scanIdx >= bound THEN k
  ELSE LET other == list[k.scanIdx + 1]
           oLeftIdx == IF other.leftOrigin = FugueStart THEN 0 - 1
                       ELSE fugueIndex(list, other.leftOrigin)
           oRightIdx == IF other.rightParent = FugueEnd THEN Len(list)
                        ELSE fugueIndex(list, other.rightParent)
           scanning == IF oLeftIdx = leftIdx THEN oRightIdx < rightIdx
                       ELSE k.scanning
       IN IF oLeftIdx < leftIdx THEN k
          ELSE IF /\ oLeftIdx = leftIdx
                  /\ oRightIdx = rightIdx
                  /\ fugueIdLess(id, other.id) THEN k
          ELSE fugueScan(list, id, leftIdx, rightIdx, bound,
                 [idx |-> IF scanning THEN k.idx ELSE k.scanIdx + 1,
                  scanning |-> scanning, scanIdx |-> k.scanIdx + 1])

fugueInsert(list, m) ==
  LET leftIdx == IF m.leftOrigin = FugueStart THEN 0 - 1
                 ELSE fugueIndex(list, m.leftOrigin)
      bound == IF m.rightOrigin = FugueEnd THEN Len(list)
               ELSE fugueIndex(list, m.rightOrigin)
      rightParent == IF m.rightOrigin = FugueEnd THEN FugueEnd
                     ELSE IF list[bound + 1].leftOrigin = m.leftOrigin
                       THEN m.rightOrigin
                     ELSE FugueEnd
      rightIdx == IF rightParent = FugueEnd THEN Len(list) ELSE bound
      k == fugueScan(list, m.id, leftIdx, rightIdx, bound,
             [idx |-> leftIdx + 1, scanning |-> FALSE, scanIdx |-> leftIdx + 1])
  IN SpliceIn(list, k.idx,
       [id |-> m.id, leftOrigin |-> m.leftOrigin, rightParent |-> rightParent,
        value |-> m.value, deleted |-> FALSE])

receivePrimitive(list, m) ==
  IF m.type = "delete"
    THEN [i \in 1..Len(list) |->
            IF list[i].id = m.id THEN [list[i] EXCEPT !.deleted = TRUE]
            ELSE list[i]]
    ELSE fugueInsert(list, m)

RECURSIVE receiveAll(_, _)
receiveAll(list, fed) ==
  IF fed = <<>> THEN list
  ELSE receiveAll(receivePrimitive(list, Head(fed)), Tail(fed))

RECURSIVE fugueToArray(_)
fugueToArray(list) ==
  IF list = <<>> THEN <<>>
  ELSE IF Head(list).deleted THEN fugueToArray(Tail(list))
  ELSE <<Head(list).value>> \o fugueToArray(Tail(list))

\* ================= the state machine =================
\* oplog[p] is the oplog of peer p. branch is one document branch, held by
\* peer branch.peer and updated from that peer's oplog.
\* oplog, branch: the peers of simple/src/index.ts and the branch one of
\* them keeps. oplogV, heap: the peers of index.ts and the content arrays
\* their operations hold. walk: the checkout that the holder of the branch
\* is in the middle of, if any.
VARIABLES oplog, branch, oplogV, heap, walk

vars == <<oplog, branch, oplogV, heap, walk>>

\* The position of a checkout in progress: the edit context, the entries of
\* iterVersionsBetween not yet processed and the next LV to apply.
noWalk ==
  [pc |-> "idle", ctx |-> createEditContext(createOpLog, <<>>, <<>>, <<>>),
   entries |-> <<>>, lv |-> 0]

Init ==
  /\ oplog = [p \in Peers |-> createOpLog]
  /\ branch = [peer |-> 1, snapshot |-> createEmptyBranch.snapshot,
               version |-> createEmptyBranch.version]
  /\ oplogV = [p \in Peers |-> createOpLogWithV]
  /\ heap = [p \in Peers |-> <<>>]
  /\ walk = noWalk

\* Every peer edits under its own agent name.
agentOf(p) == p

\* The number of operations issued so far by all the peers.
RECURSIVE issuedFrom(_, _)
issuedFrom(logs, p) ==
  IF p > LastPeer THEN 0
  ELSE nextSeqForAgent(logs[p].cg, agentOf(p)) + issuedFrom(logs, p + 1)

issued == issuedFrom(oplog, 1)

\* Inserted elements are numbered as they are issued (const content =
\* ++nextItem), so every element of a document is distinct.
freshContent(n) == [i \in 1..n |-> issued + i]

\* A peer inserts a run of elements at a position of the document it sees.
LocalInsert(p) ==
  /\ issued < MaxOps
  /\ \E pos \in 0..Len(checkoutSimple(oplog[p])) :
       \E n \in 1..min2(MaxRun, MaxOps - issued) :
         /\ oplog' = [oplog EXCEPT ![p] =
                        localInsert(@, agentOf(p), pos, freshContent(n)).oplog]
         /\ UNCHANGED <<branch, oplogV, heap, walk>>

\* A peer deletes a range of the document it sees.
LocalDelete(p) ==
  /\ issued < MaxOps
  /\ \E len \in 1..min2(MaxRun, MaxOps - issued) :
       \E pos \in 0..(Len(checkoutSimple(oplog[p])) - len) :
         /\ oplog' = [oplog EXCEPT ![p] =
                        localDelete(@, agentOf(p), pos, len).oplog]
         /\ UNCHANGED <<branch, oplogV, heap, walk>>

\* A call that throws leaves behind whatever it had changed before the throw.
MergeOplogInto(dest, src) ==
  /\ dest # src
  /\ oplog' = [oplog EXCEPT ![dest] = mergeOplogInto(@, oplog[src]).oplog]
  /\ UNCHANGED <<branch, oplogV, heap, walk>>

asBranch(b) == [snapshot |-> b.snapshot, version |-> b.version]

\* A peer takes a fresh checkout of its oplog (no branch is returned when
\* the replay throws).
Checkout(p) ==
  LET taken(c) ==
        /\ ~c.err
        /\ branch' = [peer |-> p, snapshot |-> c.branch.snapshot,
                      version |-> c.branch.version]
  IN /\ taken(checkout(oplog[p]))
     /\ UNCHANGED <<oplog, oplogV, heap, walk>>

\* The merge whose findConflicting sorts the version it is handed in
\* place, largest first: the default mergeVersion is the oplog's own heads.
MergeChangesIntoBranch_sortsHeads ==
  LET log == oplog[branch.peer]
      merged(m) ==
        branch' = [peer |-> branch.peer, snapshot |-> m.branch.snapshot,
                   version |-> m.branch.version]
  IN /\ Len(branch.snapshot) <= MaxOps
     /\ merged(mergeChangesIntoBranch(asBranch(branch), log, log.cg.heads))
     /\ oplog' = [oplog EXCEPT ![branch.peer].cg.heads = Reverse(@)]
     /\ UNCHANGED <<oplogV, heap, walk>>

\* The holder of the branch brings it up to date with its oplog. A merge that
\* throws can leave items in the snapshot, and a retry adds them again: the
\* snapshot is kept within MaxOps items.
MergeChangesIntoBranch ==
  LET log == oplog[branch.peer]
      merged(m) ==
        branch' = [peer |-> branch.peer, snapshot |-> m.branch.snapshot,
                   version |-> m.branch.version]
  IN /\ Len(branch.snapshot) <= MaxOps
     /\ merged(mergeChangesIntoBranch(asBranch(branch), log, log.cg.heads))
     /\ UNCHANGED <<oplog, oplogV, heap, walk>>

\* Peers that edit locally and exchange their oplogs.
Next ==
  \/ \E p \in Peers : LocalInsert(p)
  \/ \E p \in Peers : LocalDelete(p)
  \/ \E dest, src \in Peers : MergeOplogInto(dest, src)

Spec == Init /\ [][Next]_vars

\* The same peers, one of which also keeps a branch.
NextBranch ==
  \/ Next
  \/ \E p \in Peers : Checkout(p)
  \/ MergeChangesIntoBranch

SpecBranch == Init /\ [][NextBranch]_vars

\* ---- peers fed by pushOp ----
\* The operations that arrive from the network: what two remote agents
\* send, well formed or not. Agent 2 issues the Id (2, 0) twice with
\* different parents; agent 1 sends under (1, 1) a delete at a position past
\* the end of the document, and an insert that carries no content.
RemoteOps ==
  << [id |-> <<1, 0>>, parents |-> <<>>, type |-> "ins", pos |-> 0,
      content |-> <<1>>],
     [id |-> <<2, 0>>, parents |-> << <<1, 0>> >>, type |-> "ins", pos |-> 1,
      content |-> <<2>>],
     [id |-> <<2, 0>>, parents |-> <<>>, type |-> "ins", pos |-> 0,
      content |-> <<3>>],
     [id |-> <<2, 1>>, parents |-> << <<2, 0>> >>, type |-> "ins", pos |-> 0,
      content |-> <<4>>],
     [id |-> <<1, 1>>, parents |-> << <<1, 0>> >>, type |-> "del", pos |-> 3,
      content |-> <<>>],
     [id |-> <<1, 1>>, parents |-> << <<1, 0>> >>, type |-> "ins", pos |-> 0,
      content |-> <<>>] >>

\* A peer stores an operation it received. A call that throws leaves behind
\* what it had changed before the throw.
PushOp(p, m) ==
  /\ oplog' = [oplog EXCEPT ![p] =
                 pushOp(@, m.id, m.parents, m.type, m.pos, m.content).oplog]
  /\ UNCHANGED <<branch, oplogV, heap, walk>>

NextRaw ==
  \/ \E p \in Peers : \E m \in {RemoteOps[i] : i \in 1..Len(RemoteOps)} :
       PushOp(p, m)
  \/ \E dest, src \in Peers : MergeOplogInto(dest, src)
  \/ \E p \in Peers : Checkout(p)
  \/ MergeChangesIntoBranch

SpecRaw == Init /\ [][NextRaw]_vars

\* ---- a checkout, one step of traverseAndApply at a time ----
\* What three agents send to the holder of the branch. Agents 2 and 3 both
\* delete the element 1 that agent 1 inserted, agent 1 meanwhile inserts 2
\* after it and deletes 2 again, and agent 2 inserts 3 once it has seen both
\* deletes. The last operation is ill formed: agent 3 deletes at position 0
\* of the document it has just emptied.
ReplayOps ==
  << [id |-> <<1, 0>>, parents |-> <<>>, type |-> "ins", pos |-> 0,
      content |-> <<1>>],
     [id |-> <<2, 0>>, parents |-> << <<1, 0>> >>, type |-> "del", pos |-> 0,
      content |-> <<>>],
     [id |-> <<3, 0>>, parents |-> << <<1, 0>> >>, type |-> "del", pos |-> 0,
      content |-> <<>>],
     [id |-> <<1, 1>>, parents |-> << <<1, 0>> >>, type |-> "ins", pos |-> 1,
      content |-> <<2>>],
     [id |-> <<1, 2>>, parents |-> << <<1, 1>> >>, type |-> "del", pos |-> 1,
      content |-> <<>>],
     [id |-> <<2, 1>>, parents |-> << <<2, 0>>, <<3, 0>> >>, type |-> "ins",
      pos |-> 0, content |-> <<3>>],
     [id |-> <<3, 1>>, parents |-> << <<3, 0>> >>, type |-> "del", pos |-> 0,
      content |-> <<>>] >>

\* The holder of the branch stores an operation while no checkout runs.
Receive(m) ==
  /\ walk.pc = "idle"
  /\ PushOp(branch.peer, m)

\* checkout up to the call of traverseAndApply and the start of its loop.
StartCheckout ==
  LET log == oplog[branch.peer]
      started(it) ==
        walk' = [pc |-> IF it.err THEN "failed"
                        ELSE IF it.entries = <<>> THEN "done" ELSE "entry",
                 ctx |-> createEditContext(log, <<>>, <<>>, <<>>),
                 entries |-> it.entries, lv |-> 0]
  IN /\ walk.pc = "idle"
     /\ started(iterVersionsBetween(log.cg, 0, nextLV(log.cg)))
     /\ UNCHANGED <<oplog, branch, oplogV, heap>>

\* The retreat and advance loops for the next entry.
MoveToEntry ==
  LET log == oplog[branch.peer]
      entry == Head(walk.entries)
      moved(ctx) ==
        walk' = [walk EXCEPT !.pc = IF ctx.err THEN "failed" ELSE "apply",
                             !.ctx = ctx, !.lv = entry.version]
      move(d) ==
        IF d.err THEN moved([walk.ctx EXCEPT !.err = TRUE])
        ELSE moved(advanceAll(retreatAll(walk.ctx, log, d.aOnly, Len(d.aOnly)),
                              log, d.bOnly))
  IN /\ walk.pc = "entry"
     /\ move(diff(log.cg, walk.ctx.curVersion, entry.parents))
     /\ UNCHANGED <<oplog, branch, oplogV, heap>>

\* One turn of the apply loop; after the entry's last operation the context
\* moves to the entry's last version and the loop goes to the next entry.
ApplyNext ==
  LET log == oplog[branch.peer]
      entry == Head(walk.entries)
      applied(ctx) ==
        walk' =
          IF ctx.err THEN [walk EXCEPT !.pc = "failed", !.ctx = ctx]
          ELSE IF walk.lv + 1 < entry.vEnd
            THEN [walk EXCEPT !.ctx = ctx, !.lv = walk.lv + 1]
          ELSE [pc |-> IF Tail(walk.entries) = <<>> THEN "done" ELSE "entry",
                ctx |-> [ctx EXCEPT !.curVersion = <<entry.vEnd - 1>>],
                entries |-> Tail(walk.entries), lv |-> entry.vEnd]
  IN /\ walk.pc = "apply"
     /\ applied(apply1(walk.ctx, TRUE, log, walk.lv))
     /\ UNCHANGED <<oplog, branch, oplogV, heap>>

\* checkout returns its branch, or the error leaves it; the context is gone
\* with the call.
ReturnCheckout ==
  /\ walk.pc \in {"done", "failed"}
  /\ walk' = noWalk
  /\ UNCHANGED <<oplog, branch, oplogV, heap>>

NextReplay ==
  \/ \E m \in {ReplayOps[i] : i \in 1..Len(ReplayOps)} : Receive(m)
  \/ StartCheckout
  \/ MoveToEntry
  \/ ApplyNext
  \/ ReturnCheckout

SpecReplay == Init /\ [][NextReplay]_vars

\* ---- peers of index.ts: local edits, pushRemoteOp and mergeOplogInto ----
\* The number of operations the peers issued locally.
issuedWithV == issuedFrom(oplogV, 1)

\* The third agent's history, as it reaches the peers. Its first
\* MaxRemoteRun operations are one run of typing, (3, 0) <- (3, 1) <- ...,
\* sent whole or in pieces; the next one is a delete it issued on another
\* replica that had seen none of them, so it can arrive before them.
RemoteAgent == LastAgent

remoteInsert(s, n) ==
  [id |-> <<RemoteAgent, s>>,
   parents |-> IF s = 0 THEN <<>> ELSE << <<RemoteAgent, s - 1>> >>,
   op |-> [type |-> "ins", pos |-> s, len |-> 0,
           content |-> [i \in 1..n |-> 100 + s + i]]]

RemoteSpans ==
  {remoteInsert(sn[1], sn[2]) :
     sn \in {x \in (0..(MaxRemoteRun - 1)) \X (1..MaxRemoteRun) :
               x[1] + x[2] <= MaxRemoteRun}}
  \cup {[id |-> <<RemoteAgent, MaxRemoteRun>>, parents |-> <<>>,
         op |-> [type |-> "del", pos |-> 0, len |-> 1, content |-> <<>>]]}

\* Inserted elements are numbered as they are issued.
freshContentWithV(n) == [i \in 1..n |-> issuedWithV + i]

\* A call that throws leaves behind whatever it had changed before the throw.
LocalInsertWithV(p) ==
  /\ issuedWithV < MaxTyped
  /\ \E pos \in 0..1 :
       \E n \in 1..min2(MaxRun, MaxTyped - issuedWithV) :
         LET done(r) == /\ oplogV' = [oplogV EXCEPT ![p] = r.oplog]
                        /\ heap' = r.heap
         IN done(localInsertWithV(p, oplogV[p], heap, agentOf(p), pos,
                                  freshContentWithV(n)))
  /\ UNCHANGED <<oplog, branch, walk>>

LocalDeleteWithV(p) ==
  /\ issuedWithV < MaxTyped
  /\ \E pos \in 0..1 :
       \E len \in 1..min2(MaxRun, MaxTyped - issuedWithV) :
         LET done(r) == /\ oplogV' = [oplogV EXCEPT ![p] = r.oplog]
                        /\ heap' = r.heap
         IN done(localDeleteWithV(p, oplogV[p], heap, agentOf(p), pos, len))
  /\ UNCHANGED <<oplog, branch, walk>>

PushRemoteOp(p, m) ==
  LET done(r) == /\ oplogV' = [oplogV EXCEPT ![p] = r.oplog]
                 /\ heap' = r.heap
  IN /\ done(pushRemoteOp(p, oplogV[p], heap, m.id, m.parents, m.op))
     /\ UNCHANGED <<oplog, branch, walk>>

MergeOplogIntoWithV(dest, src) ==
  LET done(r) == /\ oplogV' = [oplogV EXCEPT ![dest] = r.oplog]
                 /\ heap' = r.heap
  IN /\ dest # src
     /\ done(mergeOplogIntoWithV(dest, oplogV[dest], oplogV[src], heap))
     /\ UNCHANGED <<oplog, branch, walk>>

\* The first peer is where the user types; the last one receives the
\* remote agent's operations from the network; they sync with each other.
NextWithV ==
  \/ LocalInsertWithV(1)
  \/ LocalDeleteWithV(1)
  \/ \E m \in RemoteSpans : PushRemoteOp(LastPeer, m)
  \/ \E dest, src \in Peers : MergeOplogIntoWithV(dest, src)

SpecWithV == Init /\ [][NextWithV]_vars

\* ================= properties =================
\* s with the elements of content inserted at index pos (0-based).
InsertedAt(s, pos, content) ==
  SubSeq(s, 1, pos) \o content \o SubSeq(s, pos + 1, Len(s))

\* s without its len elements at [pos, pos + len).
RemovedAt(s, pos, len) ==
  SubSeq(s, 1, pos) \o SubSeq(s, pos + len + 1, Len(s))

\* The Ids an oplog knows, as the set of (agent, seq) of its LVs.
knownIds(log) == {lvToRaw(log.cg, v) : v \in 0..(nextLV(log.cg) - 1)}

\* The parents of the LV v of log, as a set of Ids.
parentIds(log, v) ==
  LET ps == parentsOf(log.cg, v)
  IN {lvToRaw(log.cg, ps[i]) : i \in 1..Len(ps)}

\* C1: Convergence. Merging two oplogs in either direction checks out to
\* the same snapshot, and any two oplogs that hold the same set of
\* operations check out to the same snapshot, whatever order their LVs
\* were assigned in.
C1_Convergence ==
  \A p, q \in Peers :
    LET pq == mergeOplogInto(oplog[p], oplog[q])
        qp == mergeOplogInto(oplog[q], oplog[p])
    IN /\ ~pq.err /\ ~qp.err
       /\ ~checkout(pq.oplog).err
       /\ checkoutSimple(pq.oplog) = checkoutSimple(qp.oplog)
       /\ (knownIds(oplog[p]) = knownIds(oplog[q])
             => checkoutSimple(oplog[p]) = checkoutSimple(oplog[q]))

\* Both peers hold the same operations, two of them concurrent inserts, under
\* different LVs.
C1_Witness ==
  /\ Len(oplog[1].cg.heads) = 2
  /\ knownIds(oplog[1]) = knownIds(oplog[2])
  /\ lvToRaw(oplog[1].cg, 0) # lvToRaw(oplog[2].cg, 0)
  /\ Len(checkoutSimple(oplog[1])) >= 2

\* C2: BranchMerge equivalence. For a branch made by checkout or by earlier
\* branch merges, and the holder's oplog as it has grown since by local
\* edits and merges, mergeChangesIntoBranch leaves the branch's snapshot
\* equal, element for element, to checkoutSimple of the oplog.
C2_BranchMerge ==
  LET log == oplog[branch.peer]
      m == mergeChangesIntoBranch(asBranch(branch), log, log.cg.heads)
  IN /\ ~m.err
     /\ m.branch.snapshot = checkoutSimple(log)

\* A non-empty branch that lags behind its oplog, where the merge has both
\* operations to replay without the snapshot (the branch already shows them)
\* and new ones concurrent with them.
C2_Witness ==
  LET log == oplog[branch.peer]
      cs == conflictSplit(log, branch.version, log.cg.heads)
  IN /\ branch.snapshot # <<>>
     /\ cs.conflictOps # <<>>
     /\ cs.newOps # <<>>

\* C3: Local edits mean what they say. If checkout(L) is S, then after
\* localInsert(L, agent, pos, c1..ck) with 0 <= pos <= |S| the checkout is S
\* with c1..ck inserted at pos, and after localDelete(L, agent, pos, len)
\* with len >= 1 and pos + len <= |S| it is S without its elements at
\* [pos, pos + len), also when L holds merged concurrent history.
C3_LocalEdits ==
  \A p \in Peers :
    LET S == checkoutSimple(oplog[p])
    IN /\ \A pos \in 0..Len(S) : \A n \in 1..MaxRun :
            LET r == localInsert(oplog[p], agentOf(p), pos, freshContent(n))
            IN /\ ~r.err
               /\ ~checkout(r.oplog).err
               /\ checkoutSimple(r.oplog) = InsertedAt(S, pos, freshContent(n))
       /\ \A len \in 1..MaxRun : \A pos \in 0..(Len(S) - len) :
            LET r == localDelete(oplog[p], agentOf(p), pos, len)
            IN /\ ~r.err
               /\ ~checkout(r.oplog).err
               /\ checkoutSimple(r.oplog) = RemovedAt(S, pos, len)

\* A peer has merged a concurrent edit of the other agent and then edited on
\* top of the merge: its last entry is its own and has two parents.
C3_Witness ==
  \E p \in Peers :
    LET cg == oplog[p].cg
    IN /\ Len(cg.entries) >= 3
       /\ cg.entries[Len(cg.entries)].agent = agentOf(p)
       /\ Len(cg.entries[Len(cg.entries)].parents) = 2
       /\ Len(checkoutSimple(oplog[p])) >= 2

\* C4: Fugue equivalence. For every oplog, the snapshot produced by the
\* replay equals the list held by the reference Fugue list that was sent the
\* same operations in the same order: each insert with its left origin and
\* its concrete right neighbour at insertion time, each delete with the id
\* of the item it targets.
C4_FugueEquivalence ==
  \A p \in Peers :
    /\ ~walkBetween(oplog[p]).ctx.err
    /\ Len(walkBetween(oplog[p]).fed) = Len(oplog[p].ops)
    /\ fugueToArray(receiveAll(<<>>, walkBetween(oplog[p]).fed))
         = walkBetween(oplog[p]).ctx.snapshot

\* An oplog with two concurrent first inserts, whose replay sent the
\* reference list both of them and a delete and left a non-empty document.
C4_Witness ==
  \E p \in Peers :
    /\ Len(oplog[p].cg.entries) >= 2
    /\ \E i \in 1..Len(oplog[p].cg.entries) :
         /\ oplog[p].cg.entries[i].version > 0
         /\ oplog[p].cg.entries[i].parents = <<>>
    /\ \E i \in 1..Len(walkBetween(oplog[p]).fed) :
         walkBetween(oplog[p]).fed[i].type = "delete"
    /\ walkBetween(oplog[p]).ctx.snapshot # <<>>

\* C6: Idempotence of merge. mergeOplogInto(A, B) applied twice has the same
\* effect as once: the second call leaves A's operations, causal-graph
\* entries, per-agent index and heads (and so nextLV) unchanged.
C6_MergeIdempotent ==
  \A dest, src \in Peers :
    LET once == mergeOplogInto(oplog[dest], oplog[src])
        twice == mergeOplogInto(once.oplog, oplog[src])
    IN /\ ~once.err /\ ~twice.err
       /\ twice.oplog.ops = once.oplog.ops
       /\ twice.oplog.cg.entries = once.oplog.cg.entries
       /\ twice.oplog.cg.agentToVersion = once.oplog.cg.agentToVersion
       /\ twice.oplog.cg.heads = once.oplog.cg.heads
       /\ nextLV(twice.oplog.cg) = nextLV(once.oplog.cg)

\* A merge that brings new operations to a peer that has some of its own
\* and some of the source's already.
C6_Witness ==
  \E dest, src \in Peers :
    /\ dest # src
    /\ knownIds(oplog[dest]) \cap knownIds(oplog[src]) # {}
    /\ knownIds(oplog[dest]) \ knownIds(oplog[src]) # {}
    /\ mergeOplogInto(oplog[dest], oplog[src]).oplog # oplog[dest]

\* C7: mergeOplogInto(dest, src) adds everything in src to dest. Afterwards
\* dest knows every Id src knows, stores for it the operation src stores
\* (type, position, content) and gives it the same parents, as Ids; the
\* operations dest held before the call are unchanged.
C7_MergeAddsAll ==
  \A dest, src \in Peers :
    LET D == oplog[dest]
        S == oplog[src]
        m == mergeOplogInto(D, S)
        M == m.oplog
    IN /\ ~m.err
       /\ \A v \in 0..(nextLV(S.cg) - 1) :
            LET id == lvToRaw(S.cg, v)
                got == tryRawToLV(M.cg, id[1], id[2])
            IN /\ got # <<>>
               /\ got[1] < Len(M.ops)
               /\ M.ops[got[1] + 1] = S.ops[v + 1]
               /\ parentIds(M, got[1]) = parentIds(S, v)
       /\ \A v \in 0..(nextLV(D.cg) - 1) :
            /\ M.ops[v + 1] = D.ops[v + 1]
            /\ lvToRaw(M.cg, v) = lvToRaw(D.cg, v)
            /\ parentsOf(M.cg, v) = parentsOf(D.cg, v)

\* The source holds a merge of both agents' edits that the destination,
\* which has edits of its own, has not seen.
C7_Witness ==
  \E dest, src \in Peers :
    /\ dest # src
    /\ oplog[dest].ops # <<>>
    /\ \E v \in 0..(nextLV(oplog[src].cg) - 1) :
         /\ Len(parentsOf(oplog[src].cg, v)) = 2
         /\ lvToRaw(oplog[src].cg, v) \notin knownIds(oplog[dest])

\* The 0-based index of the element v in the snapshot s, or -1.
indexIn(s, v) ==
  IF \E i \in 1..Len(s) : s[i] = v
    THEN (CHOOSE i \in 1..Len(s) : s[i] = v) - 1
    ELSE 0 - 1

\* The right parent of an item that carries originRight: its right origin
\* when that item has the same left origin, else none.
rightParentOf(items, item) ==
  IF item.originRight = 0 - 1 THEN 0 - 1
  ELSE IF items[findIndex(items, item.originRight) + 1].originLeft
            = item.originLeft
    THEN item.originRight
  ELSE 0 - 1

\* C5 for the simple replay: of two surviving inserts with the same
\* originLeft and the same rightParent, the one with the smaller
\* (agent, seq) is at the smaller index of the snapshot.
TieBreakSimple ==
  \A p \in Peers :
    LET log == oplog[p]
        ctx == checkoutCtx(log)
    IN /\ ~ctx.err
       /\ \A i, j \in 1..Len(ctx.items) :
            (/\ i # j
             /\ ctx.items[i].originLeft = ctx.items[j].originLeft
             /\ ctx.items[i].rightParent = ctx.items[j].rightParent
             /\ ctx.items[i].endState = Inserted
             /\ ctx.items[j].endState = Inserted
             /\ lvCmp(log.cg, ctx.items[i].opId, ctx.items[j].opId) < 0)
            => indexIn(ctx.snapshot, log.ops[ctx.items[i].opId + 1].content)
                 < indexIn(ctx.snapshot, log.ops[ctx.items[j].opId + 1].content)

\* C5: Tie-break direction. Of two concurrent inserts with the same
\* originLeft and the same rightParent, the one with the smaller
\* (agent, seq) ends up at the smaller index, whichever was stored first;
\* stated of mergeString, the replay of src/oplog.ts.
C5_TieBreak ==
  \A p \in Peers :
    LET log == oplog[p]
        ctx == mergeString(log)
    IN /\ ~ctx.err
       /\ \A i, j \in 1..Len(ctx.items) :
            (/\ i # j
             /\ ctx.items[i].originLeft = ctx.items[j].originLeft
             /\ rightParentOf(ctx.items, ctx.items[i])
                  = rightParentOf(ctx.items, ctx.items[j])
             /\ ctx.items[i].endState = Inserted
             /\ ctx.items[j].endState = Inserted
             /\ lvCmp(log.cg, ctx.items[i].opId, ctx.items[j].opId) < 0)
            => indexIn(ctx.snapshot, log.ops[ctx.items[i].opId + 1].content)
                 < indexIn(ctx.snapshot, log.ops[ctx.items[j].opId + 1].content)

\* C8: mergeOplogInto is atomic. Either the full diff from src is merged
\* into dest, or the call raises an error and dest (operations, causal-graph
\* entries, per-agent index, heads) is exactly as it was before the call.
C8_MergeAtomic ==
  [][\A dest, src \in Peers :
       MergeOplogInto(dest, src) =>
         IF mergeOplogInto(oplog[dest], oplog[src]).err
           THEN oplog'[dest] = oplog[dest]
           ELSE \A i \in 1..Len(mergeRanges(oplog[dest], oplog[src])) :
                  \A v \in mergeRanges(oplog[dest], oplog[src])[i][1]
                             ..(mergeRanges(oplog[dest], oplog[src])[i][2] - 1) :
                    lvToRaw(oplog[src].cg, v) \in knownIds(oplog'[dest])]_vars

\* C9: mergeChangesIntoBranch either completes the merge or reports the
\* error without side-effects: if the replay raises an error,
\* branch.snapshot and branch.version are as they were before the call.
C9_BranchMergeAtomic ==
  [][MergeChangesIntoBranch =>
       (mergeChangesIntoBranch(asBranch(branch), oplog[branch.peer],
                               oplog[branch.peer].cg.heads).err
          => /\ branch'.snapshot = branch.snapshot
             /\ branch'.version = branch.version)]_vars

\* The operation of the pool sent under the Id of the LV v matches the
\* operation the oplog stores at v.
storedAsIssued(log, v) ==
  \E i \in 1..Len(RemoteOps) :
    /\ RemoteOps[i].id = lvToRaw(log.cg, v)
    /\ log.ops[v + 1].type = RemoteOps[i].type
    /\ log.ops[v + 1].pos = RemoteOps[i].pos
    /\ RemoteOps[i].type = "ins"
         => <<log.ops[v + 1].content>> = RemoteOps[i].content

\* C10 (I5): in every oplog reached through createOpLog, pushOp and
\* mergeOplogInto, also after a call that raised an error, the operation
\* list is as long as the causal graph's nextLV and the operation stored at
\* each LV is the one issued under the Id the graph maps that LV to.
C10_OpsMatchGraph ==
  \A p \in Peers :
    /\ Len(oplog[p].ops) = nextLV(oplog[p].cg)
    /\ \A v \in 0..(nextLV(oplog[p].cg) - 1) : storedAsIssued(oplog[p], v)

\* ---- properties of the oplog of index.ts and of its causal graph ----
\* The operation an oplog of index.ts holds for the LV v: the element of the
\* run findOpIndex finds for v (none when no run covers v).
opAtWithV(log, hp, v) ==
  LET idx == findOpIndex(log, hp, v)
      op == log.ops[idx + 1]
      offset == v - op.version
  IN IF idx < 0 THEN <<>>
     ELSE IF op.type = "ins"
       THEN <<[type |-> "ins", pos |-> op.pos + offset,
               content |-> contentOf(hp, op)[offset + 1]]>>
     ELSE <<[type |-> "del", pos |-> op.pos]>>

\* C11: History is append-only. Once an LV has been assigned, its Id, its
\* parents and its operation never change under a later localInsert,
\* localDelete, pushRemoteOp or mergeOplogInto, and the only change to an
\* existing causal-graph entry is the extension of the last entry's end.
C11_AppendOnly ==
  [][\A p \in Peers :
       /\ \A v \in 0..(nextLV(oplogV[p].cg) - 1) :
            /\ lvToRaw(oplogV'[p].cg, v) = lvToRaw(oplogV[p].cg, v)
            /\ parentsOf(oplogV'[p].cg, v) = parentsOf(oplogV[p].cg, v)
            /\ opAtWithV(oplogV'[p], heap', v) = opAtWithV(oplogV[p], heap, v)
       /\ Len(oplogV'[p].cg.entries) >= Len(oplogV[p].cg.entries)
       /\ \A i \in 1..Len(oplogV[p].cg.entries) :
            \/ oplogV'[p].cg.entries[i] = oplogV[p].cg.entries[i]
            \/ /\ i = Len(oplogV[p].cg.entries)
               /\ oplogV'[p].cg.entries[i].vEnd > oplogV[p].cg.entries[i].vEnd
               /\ oplogV'[p].cg.entries[i] =
                    [oplogV[p].cg.entries[i] EXCEPT
                       !.vEnd = oplogV'[p].cg.entries[i].vEnd]]_vars

\* ---- C12 ----
\* The range lists a peer may ask a graph to serialise: every single range
\* [a, b) of its versions, and the empty list.
RangeLists(cg) ==
  {<<>>} \cup {<<r>> : r \in {x \in (0..nextLV(cg)) \X (0..nextLV(cg)) :
                                x[1] < x[2]}}

\* serializeDiff of src handed to mergePartialVersions of dest, and the same
\* records handed to it once more.
appliedTwice(dest, src, ranges) ==
  LET twice(data, once) ==
        [data |-> data, once |-> once,
         again |-> cgMergePartialVersions(once.cg, data)]
      first(data) == twice(data, cgMergePartialVersions(dest, data))
  IN first(serializeDiff(src, ranges))

\* C12: Idempotence of sync. mergePartialVersions(cg, serializeDiff(cg,
\* [[0, nextLV)])) leaves the graph as it is and returns an empty range; and
\* for the serialised diff of any range of any peer's graph, once a graph
\* has taken it in, taking it in again changes neither entries, per-agent
\* index nor heads (so nextLV stays) and returns an empty LV range.
C12_SyncIdempotent ==
  \A p \in Peers :
    /\ LET self(m) == /\ ~m.err
                      /\ m.cg = oplogV[p].cg
                      /\ m.range[1] = m.range[2]
       IN self(cgMergePartialVersions(oplogV[p].cg,
                 serializeDiff(oplogV[p].cg,
                   IF nextLV(oplogV[p].cg) = 0 THEN <<>>
                   ELSE <<<<0, nextLV(oplogV[p].cg)>>>>)))
    /\ \A q \in Peers \ {p} : \A ranges \in RangeLists(oplogV[q].cg) :
         LET same(t) ==
               t.once.err \/
                 /\ ~t.again.err
                 /\ t.again.cg.entries = t.once.cg.entries
                 /\ t.again.cg.agentToVersion = t.once.cg.agentToVersion
                 /\ t.again.cg.heads = t.once.cg.heads
                 /\ nextLV(t.again.cg) = nextLV(t.once.cg)
                 /\ t.again.range[1] = t.again.range[2]
         IN same(appliedTwice(oplogV[p].cg, oplogV[q].cg, ranges))

\* A diff of two records whose first application added versions to a graph
\* that already held others.
C12_Witness ==
  \E ranges \in RangeLists(oplogV[1].cg) :
    LET seen(t) == /\ Len(t.data) >= 2
                   /\ ~t.once.err
                   /\ t.once.range[1] > 0
                   /\ t.once.range[2] > t.once.range[1]
                   /\ t.again.cg = t.once.cg
    IN seen(appliedTwice(oplogV[2].cg, oplogV[1].cg, ranges))

\* ---- C13 .. C18: the invariants of the causal graph ----
\* The graphs the peers hold: each is the result of a sequence of add,
\* addRemote and mergePartialVersions calls.
LVsOf(cg) == 0..(nextLV(cg) - 1)

\* The remote agent's versions reached a graph out of seq order.
outOfOrder(cg) ==
  \E i, j \in 1..Len(cg.agentToVersion[RemoteAgent]) :
    /\ i < j
    /\ cg.agentToVersion[RemoteAgent][i].version
         > cg.agentToVersion[RemoteAgent][j].version

\* C13: Round trip of Id and LV. In every reachable causal graph, for every
\* LV v in [0, nextLV), idToLv(lvToId(v)) = v.
C13_IdRoundTrip ==
  \A p \in Peers : \A v \in LVsOf(oplogV[p].cg) :
    LET back(id) == tryRawToLV(oplogV[p].cg, id[1], id[2]) = <<v>>
    IN back(lvToRaw(oplogV[p].cg, v))

\* A graph that took remote versions out of order, holds a run of two, and
\* in which a span was cut to its unknown suffix (its LVs do not follow the
\* LVs of the seqs before it).
C13_Witness ==
  \E p \in Peers :
    /\ outOfOrder(oplogV[p].cg)
    /\ \E i \in 1..Len(oplogV[p].cg.entries) :
         /\ oplogV[p].cg.entries[i].agent = RemoteAgent
         /\ oplogV[p].cg.entries[i].seq = 1
         /\ Len(oplogV[p].cg.entries[i].parents) = 1
         /\ oplogV[p].cg.entries[i].parents[1] + 1
              < oplogV[p].cg.entries[i].version
         /\ lvToRaw(oplogV[p].cg, oplogV[p].cg.entries[i].parents[1])
              = <<RemoteAgent, 0>>
    /\ nextLV(oplogV[p].cg) >= 4

\* C14: I1. The entries are sorted by LV and gapless: the first starts at
\* 0, each starts where the one before ends, none is empty, so each LV in
\* [0, nextLV) lies in exactly one entry.
C14_Gapless ==
  \A p \in Peers :
    LET entries == oplogV[p].cg.entries
    IN /\ entries # <<>> => entries[1].version = 0
       /\ \A i \in 1..Len(entries) : entries[i].version < entries[i].vEnd
       /\ \A i \in 1..(Len(entries) - 1) :
            entries[i].vEnd = entries[i + 1].version
       /\ \A v \in LVsOf(oplogV[p].cg) :
            Cardinality({i \in 1..Len(entries) :
                           entries[i].version <= v /\ v < entries[i].vEnd}) = 1

\* A graph of three entries or more, one of them a run that was extended.
C14_Witness ==
  \E p \in Peers :
    /\ Len(oplogV[p].cg.entries) >= 3
    /\ \E i \in 1..Len(oplogV[p].cg.entries) :
         oplogV[p].cg.entries[i].vEnd - oplogV[p].cg.entries[i].version >= 2
    /\ outOfOrder(oplogV[p].cg)

\* The (agent, seq) pairs the per-agent index of a graph covers.
indexedIds(cg) ==
  UNION {UNION {{<<a, s>> : s \in cg.agentToVersion[a][i].seq
                                   ..(cg.agentToVersion[a][i].seqEnd - 1)} :
                  i \in 1..Len(cg.agentToVersion[a])} : a \in Agents}

\* C15: I3. For each agent the ClientEntries are sorted by seq and pairwise
\* non-overlapping, they cover exactly the (agent, seq) pairs of the graph's
\* entries, each once, and the LV a ClientEntry gives for (agent, seq) is
\* the LV whose CGEntry gives back (agent, seq).
C15_ClientEntries ==
  \A p \in Peers :
    LET cg == oplogV[p].cg
    IN /\ \A a \in Agents :
            LET av == cg.agentToVersion[a]
            IN /\ \A i \in 1..Len(av) : av[i].seq < av[i].seqEnd
               /\ \A i \in 1..(Len(av) - 1) : av[i].seqEnd <= av[i + 1].seq
               /\ \A i \in 1..Len(av) : \A s \in av[i].seq..(av[i].seqEnd - 1) :
                    /\ av[i].version + (s - av[i].seq) \in LVsOf(cg)
                    /\ lvToRaw(cg, av[i].version + (s - av[i].seq)) = <<a, s>>
       /\ indexedIds(cg) = knownIds(oplogV[p])
       /\ Cardinality(indexedIds(cg)) = nextLV(cg)

\* An agent whose index holds two entries in seq order that arrived in the
\* other order, next to another agent's versions.
C15_Witness ==
  \E p \in Peers :
    /\ outOfOrder(oplogV[p].cg)
    /\ oplogV[p].cg.agentToVersion[1] # <<>>
    /\ Len(oplogV[p].cg.agentToVersion[RemoteAgent]) >= 2

\* The LVs of a graph that no LV has as a parent.
childless(cg) ==
  {v \in LVsOf(cg) : \A w \in LVsOf(cg) : ~Includes(parentsOf(cg, w), v)}

\* C16: I4. heads is sorted ascending, no head is an ancestor of another,
\* and the heads are exactly the LVs in [0, nextLV) that are a parent of no
\* LV, through a parents list or as the predecessor inside an entry.
C16_Heads ==
  \A p \in Peers :
    LET cg == oplogV[p].cg
    IN /\ \A i \in 1..(Len(cg.heads) - 1) : cg.heads[i] < cg.heads[i + 1]
       /\ \A i, j \in 1..Len(cg.heads) :
            i # j => ~versionContainsLV(cg, <<cg.heads[i]>>, cg.heads[j])
       /\ {cg.heads[i] : i \in 1..Len(cg.heads)} = childless(cg)

\* A graph with three heads, and an entry that names two parents.
C16_Witness ==
  \E p \in Peers :
    /\ Len(oplogV[p].cg.heads) >= 3
    /\ nextLV(oplogV[p].cg) > Len(oplogV[p].cg.heads)

\* C17: I2. Every LV in an entry's parents list is an assigned LV strictly
\* less than the entry's first LV.
C17_ParentsBefore ==
  \A p \in Peers : \A i \in 1..Len(oplogV[p].cg.entries) :
    \A k \in 1..Len(oplogV[p].cg.entries[i].parents) :
      /\ oplogV[p].cg.entries[i].parents[k] >= 0
      /\ oplogV[p].cg.entries[i].parents[k] < oplogV[p].cg.entries[i].version

\* An entry added by addRemote whose parent is not the LV before it.
C17_Witness ==
  \E p \in Peers : \E i \in 1..Len(oplogV[p].cg.entries) :
    /\ oplogV[p].cg.entries[i].agent = RemoteAgent
    /\ Len(oplogV[p].cg.entries[i].parents) = 1
    /\ oplogV[p].cg.entries[i].parents[1] + 1 < oplogV[p].cg.entries[i].version

\* C18: The entries are RLE-maximal. No two adjacent entries a, b are such
\* that b has a's agent, b's seq continues a's, b's LVs continue a's and
\* b's only parent is a's last LV.
C18_RLEMaximal ==
  \A p \in Peers : \A i \in 1..(Len(oplogV[p].cg.entries) - 1) :
    LET a == oplogV[p].cg.entries[i]
        b == oplogV[p].cg.entries[i + 1]
    IN ~(/\ b.agent = a.agent
         /\ b.seq = a.seq + (a.vEnd - a.version)
         /\ b.version = a.vEnd
         /\ b.parents = <<a.vEnd - 1>>)

\* An entry that grew by run-length extension, next to adjacent entries of
\* one agent that could not be merged.
C18_Witness ==
  \E p \in Peers :
    /\ \E i \in 1..Len(oplogV[p].cg.entries) :
         oplogV[p].cg.entries[i].vEnd - oplogV[p].cg.entries[i].version >= 2
    /\ \E i \in 1..(Len(oplogV[p].cg.entries) - 1) :
         /\ oplogV[p].cg.entries[i].agent = oplogV[p].cg.entries[i + 1].agent
         /\ oplogV[p].cg.entries[i].seq
              + (oplogV[p].cg.entries[i].vEnd - oplogV[p].cg.entries[i].version)
              = oplogV[p].cg.entries[i + 1].seq

\* ---- C19, C20: spans the graph holds already ----
spanLen(m) == IF m.op.type = "ins" THEN Len(m.op.content) ELSE m.op.len

\* The seqs of the span of m that the graph holds.
heldOf(cg, m) ==
  {s \in m.id[2]..(m.id[2] + spanLen(m) - 1) : hasVersion(cg, m.id[1], s)}

\* C19: Duplicate ingest is silent. When the final seq of a span (agent,
\* [seqStart, seqEnd)) is already present, add returns 0 and pushRemoteOp
\* returns 0, and operations, entries, per-agent index and heads are left
\* as they were.
C19_DuplicateSilent ==
  \A p \in Peers :
    /\ \A a \in Agents :
         \A seqEnd \in 1..nextSeqForAgent(oplogV[p].cg, a) :
           \A seqStart \in 0..(seqEnd - 1) :
             hasVersion(oplogV[p].cg, a, seqEnd - 1) =>
               \A parents \in {<<>>, <<oplogV[p].cg.heads>>, << <<>> >>} :
                 LET silent(r) == /\ ~r.err
                                  /\ r.len = 0
                                  /\ r.cg = oplogV[p].cg
                 IN silent(cgAdd(oplogV[p].cg, a, seqStart, seqEnd, parents))
    /\ \A m \in RemoteSpans :
         hasVersion(oplogV[p].cg, m.id[1], m.id[2] + spanLen(m) - 1) =>
           LET silent(r) == /\ ~r.err
                            /\ r.ret = 0
                            /\ r.oplog = oplogV[p]
                            /\ r.heap = heap
           IN silent(pushRemoteOp(p, oplogV[p], heap, m.id, m.parents, m.op))

\* The whole remote run reaches a peer that took it in two pieces and
\* holds operations of its own.
C19_Witness ==
  /\ Len(oplogV[LastPeer].ops) >= 2
  /\ Len(oplogV[LastPeer].cg.entries) >= 2
  /\ \E m \in RemoteSpans :
       /\ spanLen(m) = MaxRemoteRun
       /\ heldOf(oplogV[LastPeer].cg, m)
            = m.id[2]..(m.id[2] + spanLen(m) - 1)
       /\ pushRemoteOp(LastPeer, oplogV[LastPeer], heap,
                       m.id, m.parents, m.op).ret = 0

\* What add has to leave behind for a span of which the graph held a part:
\* len is the number of seqs that were missing, every seq of the span is
\* held by one LV, and the LVs added start at the old nextLV with the LV of
\* the last seq held before them as their only parent.
trimmedTo(before, after, len, m) ==
  LET missing == (m.id[2]..(m.id[2] + spanLen(m) - 1)) \ heldOf(before, m)
      firstNew == nextLV(before)
  IN /\ len = Cardinality(missing)
     /\ nextLV(after) = firstNew + len
     /\ \A s \in m.id[2]..(m.id[2] + spanLen(m) - 1) :
          Cardinality({v \in LVsOf(after) : lvToRaw(after, v) = <<m.id[1], s>>})
            = 1
     /\ \A s \in missing :
          tryRawToLV(after, m.id[1], s) # <<>>
            /\ tryRawToLV(after, m.id[1], s)[1] >= firstNew
     /\ \E s \in missing :
          /\ s - 1 \in heldOf(before, m)
          /\ lvToRaw(after, firstNew) = <<m.id[1], s>>
          /\ parentsOf(after, firstNew) = tryRawToLV(before, m.id[1], s - 1)

\* C20: Partial-overlap trimming. When some but not all seqs of a remote
\* span (agent, [seqStart, seqEnd)) are already present, add and
\* pushRemoteOp accept exactly the part not yet known: the returned length
\* is the number of seqs of the span that were not present, afterwards every
\* seq of the span is present exactly once, and the accepted part's parents
\* are the single LV of the last already-known seq of the agent before it.
C20_PartialOverlap ==
  \A p \in Peers : \A m \in RemoteSpans :
    (/\ heldOf(oplogV[p].cg, m) # {}
     /\ heldOf(oplogV[p].cg, m) # m.id[2]..(m.id[2] + spanLen(m) - 1)) =>
      /\ LET trimmed(r) == /\ ~r.err
                           /\ trimmedTo(oplogV[p].cg, r.cg, r.len, m)
         IN trimmed(addRemote(oplogV[p].cg, m.id, spanLen(m), m.parents))
      /\ LET trimmed(r) == /\ ~r.err
                           /\ trimmedTo(oplogV[p].cg, r.oplog.cg, r.ret, m)
         IN trimmed(pushRemoteOp(p, oplogV[p], heap, m.id, m.parents, m.op))

\* ---- C21: the version of a merged branch ----
\* The versions a branch may be asked to merge: the heads of the oplog, a
\* single version of it, or nothing.
MergeVersions(log) ==
  {log.cg.heads, <<>>} \cup {<<v>> : v \in LVsOf(log.cg)}

\* The members of a list of versions that no other member's history holds.
maximalOf(cg, versions) ==
  {versions[i] : i \in
     {i \in 1..Len(versions) :
        \A j \in 1..Len(versions) :
          versions[j] = versions[i]
            \/ ~versionContainsLV(cg, <<versions[j]>>, versions[i])}}

\* C21: After mergeChangesIntoBranch(branch, log, mergeVersion) the branch's
\* version is findDominators(old version ++ mergeVersion), the members of
\* the two frontiers that no other member has in its history; when
\* mergeVersion is the log's heads (the old version lies within the log's
\* history) it is the log's heads.
C21_BranchVersion ==
  LET log == oplog[branch.peer]
  IN \A mergeVersion \in MergeVersions(log) :
       LET merged(m) ==
             /\ ~m.err
             /\ m.branch.version
                  = findDominators(log.cg, branch.version \o mergeVersion)
             /\ {m.branch.version[i] : i \in 1..Len(m.branch.version)}
                  = maximalOf(log.cg, branch.version \o mergeVersion)
             /\ mergeVersion = log.cg.heads => m.branch.version = log.cg.heads
       IN merged(mergeChangesIntoBranch(asBranch(branch), log, mergeVersion))

\* A branch at a version behind an oplog with two heads, one of them in
\* the branch's history: the merged version is neither frontier joined.
C21_Witness ==
  LET log == oplog[branch.peer]
      m == mergeChangesIntoBranch(asBranch(branch), log, log.cg.heads)
  IN /\ branch.version # <<>>
     /\ Len(log.cg.heads) = 2
     /\ branch.version # log.cg.heads
     /\ ~m.err
     /\ m.branch.version = log.cg.heads
     /\ \E v \in LVsOf(log.cg) :
          /\ ~Includes(log.cg.heads, v)
          /\ ~Includes(branch.version, v)
          /\ ~versionContainsLV(log.cg, branch.version, v)

\* ---- C23: parents the graph does not hold ----
\* C23: A remote operation (pushRemoteOp, pushOp) or a diff record
\* (mergePartialVersions) whose parents include an Id that the local graph
\* does not hold fails with an error and is not added: the oplog and the
\* causal graph are as they were before the failed call.
C23_MissingParents ==
  \A p \in Peers :
    /\ \A m \in RemoteSpans :
         rawToLVListThrows(oplogV[p].cg, m.parents) =>
           LET refused(r) == /\ r.err
                             /\ r.oplog = oplogV[p]
                             /\ r.heap = heap
           IN refused(pushRemoteOp(p, oplogV[p], heap, m.id, m.parents, m.op))
    /\ \A i \in 1..Len(RemoteOps) :
         rawToLVListThrows(oplog[p].cg, RemoteOps[i].parents) =>
           LET refused(r) == r.err /\ r.oplog = oplog[p]
           IN refused(pushOp(oplog[p], RemoteOps[i].id, RemoteOps[i].parents,
                             RemoteOps[i].type, RemoteOps[i].pos,
                             RemoteOps[i].content))
    /\ \A q \in Peers \ {p} : \A ranges \in RangeLists(oplogV[q].cg) :
         LET refused(m) == m.err => m.cg = oplogV[p].cg
         IN refused(cgMergePartialVersions(oplogV[p].cg,
                      serializeDiff(oplogV[q].cg, ranges)))

\* ---- C25: operations of no length ----
\* The lengths no operation may have.
NoLengths == {0 - 1, 0}

\* C25: An operation of zero or negative length is rejected with an error
\* and the oplog is left as it was: localDelete with len <= 0, localInsert
\* with no content, pushRemoteOp with an operation of length <= 0.
C25_InvalidLength ==
  \A p \in Peers :
    LET rejected(r) == r.err /\ r.oplog = oplogV[p] /\ r.heap = heap
    IN /\ \A len \in NoLengths :
            /\ rejected(localDeleteWithV(p, oplogV[p], heap, p, 0, len))
            /\ rejected(pushRemoteOp(p, oplogV[p], heap, <<LastAgent, 0>>, <<>>,
                          [type |-> "del", pos |-> 0, len |-> len,
                           content |-> <<>>]))
            /\ LET r == localDelete(oplog[p], p, 0, len)
               IN r.err /\ r.oplog = oplog[p]
       /\ rejected(pushRemoteOp(p, oplogV[p], heap, <<LastAgent, 0>>, <<>>,
                     [type |-> "ins", pos |-> 0, len |-> 0, content |-> <<>>]))
       /\ rejected(localInsertWithV(p, oplogV[p], heap, p, 0, <<>>))

\* ---- C26: the next seq of an agent ----
\* The seqs of agent that the entries of cg hold.
seqsOf(cg, agent) ==
  UNION {{cg.entries[i].seq + k :
            k \in 0..(cg.entries[i].vEnd - cg.entries[i].version - 1)} :
         i \in {i \in 1..Len(cg.entries) : cg.entries[i].agent = agent}}

\* C26 as stated: nextSeqForAgent(agent) is the smallest seq not yet
\* assigned for this agent, 0 if the agent is unseen, in every reachable
\* graph, the ones whose seqs arrived remotely and out of order included.
C26_SmallestUnassigned ==
  \A p \in Peers : \A agent \in Agents :
    LET held == seqsOf(oplogV[p].cg, agent)
        next == nextSeqForAgent(oplogV[p].cg, agent)
    IN /\ next \notin held
       /\ \A s \in 0..(next - 1) : s \in held

\* C26: nextSeqForAgent(agent) is one more than the largest seq assigned for
\* this agent, 0 if the agent is unseen, in every reachable graph, the ones
\* whose seqs arrived remotely and out of order included; it is the smallest
\* seq not yet assigned whenever the agent's seqs have no gap.
C26_NextSeq ==
  \A p \in Peers : \A agent \in Agents :
    LET held == seqsOf(oplogV[p].cg, agent)
        next == nextSeqForAgent(oplogV[p].cg, agent)
    IN /\ held = {} => next = 0
       /\ held # {} => next - 1 \in held
       /\ \A s \in held : s < next
       /\ held = 0..(Cardinality(held) - 1) => next = Cardinality(held)

\* The remote agent's seqs arrived out of order and one of them is still
\* missing below the next seq.
C26_Witness ==
  \E p \in Peers :
    /\ outOfOrder(oplogV[p].cg)
    /\ \E s \in 0..(nextSeqForAgent(oplogV[p].cg, RemoteAgent) - 1) :
         s \notin seqsOf(oplogV[p].cg, RemoteAgent)
    /\ seqsOf(oplogV[p].cg, p) # {}

\* ---- C29: diff ----
\* The frontiers of up to two LVs of cg, sorted, and the heads of cg.
Frontiers(cg) ==
  {<<>>, cg.heads} \cup {<<v>> : v \in LVsOf(cg)}
         \cup {<<x[1], x[2]>> : x \in {y \in LVsOf(cg) \X LVsOf(cg) : y[1] < y[2]}}

\* The causal history of a frontier: its members and all their ancestors,
\* gathered from the highest LV of the graph down.
RECURSIVE historyFrom(_, _, _)
historyFrom(cg, seen, v) ==
  IF v < 0 THEN seen
  ELSE IF v \in seen
    THEN historyFrom(cg, seen \cup {parentsOf(cg, v)[i] :
                                      i \in 1..Len(parentsOf(cg, v))}, v - 1)
  ELSE historyFrom(cg, seen, v - 1)

historyOf(cg, frontier) ==
  historyFrom(cg, {frontier[i] : i \in 1..Len(frontier)}, nextLV(cg) - 1)

\* The LVs that a list of ranges covers.
coveredBy(ranges) ==
  UNION {ranges[i][1]..(ranges[i][2] - 1) : i \in 1..Len(ranges)}

\* Ascending, disjoint, none empty, and no two ranges adjacent.
normalised(ranges) ==
  /\ \A i \in 1..Len(ranges) : ranges[i][1] < ranges[i][2]
  /\ \A i \in 1..(Len(ranges) - 1) : ranges[i][2] < ranges[i + 1][1]

\* C29: diff(a, b) is the exact difference of the causal histories: aOnly
\* covers exactly the LVs in the history of a and not of b, bOnly the
\* reverse; each list is ascending, disjoint and has adjacent ranges merged;
\* diff([], b) has an empty aOnly and a bOnly that covers the history of b.
\* The walk ends without an error. (A checkout leaves the graph as it is, so
\* the graphs are looked at between two checkouts.)
C29_DiffExact ==
  walk.pc = "idle" =>
    \A p \in Peers :
      LET cg == oplog[p].cg
      IN \A a, b \in Frontiers(cg) :
           LET exact(d) ==
                 /\ ~d.err
                 /\ coveredBy(d.aOnly) = historyOf(cg, a) \ historyOf(cg, b)
                 /\ coveredBy(d.bOnly) = historyOf(cg, b) \ historyOf(cg, a)
                 /\ normalised(d.aOnly) /\ normalised(d.bOnly)
                 /\ a = <<>> =>
                      d.aOnly = <<>> /\ coveredBy(d.bOnly) = historyOf(cg, b)
           IN exact(diff(cg, a, b))

\* Two versions that each hold LVs the other lacks, one of them in two
\* separate ranges.
C29_Witness ==
  \E p \in Peers : \E a, b \in Frontiers(oplog[p].cg) :
    /\ Len(diff(oplog[p].cg, a, b).aOnly) = 2
    /\ diff(oplog[p].cg, a, b).bOnly # <<>>
    /\ historyOf(oplog[p].cg, a) \cap historyOf(oplog[p].cg, b) # {}

\* ---- C22: concurrent deletes of one item ----
\* The deletes of the replayed oplog that removed the item of an insert.
deletesOf(ctx, opId) ==
  {lv \in 0..(Len(ctx.delTargets) - 1) : ctx.delTargets[lv + 1] = opId}

\* Two of the item's deletes are concurrent: neither knows of the other.
deletedConcurrently(cg, ctx, opId) ==
  \E d1, d2 \in deletesOf(ctx, opId) :
    /\ d1 < d2
    /\ ~versionContainsLV(cg, <<d2>>, d1)

\* The elements of the items that no delete removed, in the order of the
\* items.
RECURSIVE keptContent(_, _, _)
keptContent(log, ctx, items) ==
  IF items = <<>> THEN <<>>
  ELSE (IF deletesOf(ctx, Head(items).opId) = {}
          THEN <<log.ops[Head(items).opId + 1].content>> ELSE <<>>)
       \o keptContent(log, ctx, Tail(items))

\* C22: Concurrent deletes of the same item delete it once: the item's
\* endState becomes Deleted, exactly that one element is missing from the
\* resulting snapshot, and no other element is removed. A document of one
\* element with two concurrent deletes of position 0 checks out empty.
C22_DeleteOnce ==
  walk.pc = "done" =>
    LET log == oplog[branch.peer]
        ctx == walk.ctx
    IN /\ \A i \in 1..Len(ctx.items) :
            deletedConcurrently(log.cg, ctx, ctx.items[i].opId) =>
              /\ ctx.items[i].endState = Deleted
              /\ \A k \in 1..Len(ctx.snapshot) :
                   ctx.snapshot[k] # log.ops[ctx.items[i].opId + 1].content
       /\ ctx.snapshot = keptContent(log, ctx, ctx.items)
       /\ ctx.snapshot = checkoutSimple(log)
       /\ (Len(ctx.items) = 1
             /\ deletedConcurrently(log.cg, ctx, ctx.items[1].opId))
            => ctx.snapshot = <<>>

\* The first element was deleted by two agents at once, and the element
\* inserted next to it is still in the document.
C22_Witness ==
  /\ walk.pc = "done"
  /\ Len(walk.ctx.items) >= 2
  /\ \E i \in 1..Len(walk.ctx.items) :
       deletedConcurrently(oplog[branch.peer].cg, walk.ctx,
                           walk.ctx.items[i].opId)
  /\ walk.ctx.snapshot # <<>>

\* ---- C27: the state of the items during a replay ----
\* The version the edit context stands at: the parents of the entry once
\* the retreat and advance loops are through, the operation just applied
\* inside an entry, and ctx.curVersion between two entries.
walkVersion ==
  IF walk.pc = "apply"
    THEN IF walk.lv = Head(walk.entries).version
           THEN Head(walk.entries).parents
           ELSE <<walk.lv - 1>>
    ELSE walk.ctx.curVersion

\* C27: Replay state invariant. After the retreat and advance phases for an
\* entry, and after each applied operation relative to the updated version,
\* every item's curState is -1 if its insert is not in the history of the
\* current version, and otherwise the number of delete operations in that
\* history whose delTarget is the item; it is never below -1.
C27_ItemStates ==
  walk.pc \in {"entry", "apply", "done"} =>
    LET log == oplog[branch.peer]
        ctx == walk.ctx
        history == historyOf(log.cg, walkVersion)
    IN \A i \in 1..Len(ctx.items) :
         /\ ctx.items[i].curState >= NotYetInserted
         /\ ctx.items[i].curState =
              IF ctx.items[i].opId \notin history THEN NotYetInserted
              ELSE Cardinality(deletesOf(ctx, ctx.items[i].opId) \cap history)

\* The walk stands where one item has been deleted twice and another one
\* is not inserted yet.
C27_Witness ==
  /\ walk.pc = "apply"
  /\ \E i, j \in 1..Len(walk.ctx.items) :
       /\ walk.ctx.items[i].curState = Deleted + 1
       /\ walk.ctx.items[j].curState = NotYetInserted

\* ---- C24: the breaches a replay stops at ----
\* The state of the item that the operation lv inserted or deleted; lv has
\* been applied, so the item exists.
targetState(ctx, log, lv) ==
  LET target == IF log.ops[lv + 1].type = "del" THEN ctx.delTargets[lv + 1]
                ELSE lv
  IN ctx.items[CHOOSE i \in 1..Len(ctx.items) :
                 ctx.items[i].opId = target].curState

\* The operations of log whose item the context holds.
appliedLVs(ctx, log) ==
  {lv \in 0..(Len(log.ops) - 1) :
     \E i \in 1..Len(ctx.items) :
       ctx.items[i].opId = IF log.ops[lv + 1].type = "del"
                             THEN ctx.delTargets[lv + 1] ELSE lv}

\* The number of items that are in the document at the current version.
insertedNow(ctx) ==
  Cardinality({i \in 1..Len(ctx.items) : ctx.items[i].curState = Inserted})

\* C24: Replay fails with an error on every state-invariant breach:
\* retreating a delete whose target is not currently deleted, retreating an
\* insert whose item is not Inserted, advancing an insert that is already
\* inserted, and applying a delete whose position is at or past the end of
\* the currently inserted items.
C24_BreachFails ==
  walk.pc \in {"entry", "apply", "done"} =>
    LET log == oplog[branch.peer]
        ctx == walk.ctx
    IN /\ \A lv \in appliedLVs(ctx, log) :
            IF log.ops[lv + 1].type = "del"
              THEN targetState(ctx, log, lv) < Deleted
                     => retreat1(ctx, log, lv).err
              ELSE /\ targetState(ctx, log, lv) # Inserted
                        => retreat1(ctx, log, lv).err
                   /\ targetState(ctx, log, lv) # NotYetInserted
                        => advance1(ctx, log, lv).err
       /\ \A lv \in 0..(Len(log.ops) - 1) :
            (log.ops[lv + 1].type = "del"
               /\ log.ops[lv + 1].pos >= insertedNow(ctx))
              => apply1(ctx, TRUE, log, lv).err

\* The checkout is about to apply a delete past the end of the document,
\* with an item deleted by now and the delete of another one not yet in
\* the current version.
C24_Witness ==
  LET log == oplog[branch.peer]
      ctx == walk.ctx
  IN /\ walk.pc = "apply"
     /\ log.ops[walk.lv + 1].type = "del"
     /\ log.ops[walk.lv + 1].pos >= insertedNow(ctx)
     /\ \E lv \in appliedLVs(ctx, log) :
          log.ops[lv + 1].type = "del" /\ targetState(ctx, log, lv) < Deleted
     /\ \E lv \in appliedLVs(ctx, log) :
          log.ops[lv + 1].type = "ins" /\ targetState(ctx, log, lv) = Deleted

\* ---- C28: the order of the retreats ----
\* The ways to put the LVs of a set in a row.
ordersOf(lvs) ==
  {order \in [1..Cardinality(lvs) -> lvs] :
     \A i, j \in 1..Cardinality(lvs) : i # j => order[i] # order[j]}

\* retreat1 for the LVs of order, one after the other.
RECURSIVE retreatInOrder(_, _, _)
retreatInOrder(ctx, log, order) ==
  IF ctx.err \/ order = <<>> THEN ctx
  ELSE retreatInOrder(retreat1(ctx, log, Head(order)), log, Tail(order))

\* Every delete in order stands before the insert of the item it deleted.
undeletesFirst(ctx, log, order) ==
  \A i, j \in 1..Len(order) :
    (log.ops[order[i] + 1].type = "ins"
       /\ log.ops[order[j] + 1].type = "del"
       /\ ctx.delTargets[order[j] + 1] = order[i]) => j < i

\* C28 as stated: within the retreat phase the LVs of aOnly may be retreated
\* in any order: every order gives the same item states and passes the
\* per-retreat checks.
C28_AnyOrder ==
  walk.pc = "entry" =>
    LET log == oplog[branch.peer]
        d == diff(log.cg, walk.ctx.curVersion, Head(walk.entries).parents)
        retreated == retreatAll(walk.ctx, log, d.aOnly, Len(d.aOnly))
    IN \A order \in ordersOf(coveredBy(d.aOnly)) :
         LET same(ctx) == ~ctx.err /\ ctx.items = retreated.items
         IN same(retreatInOrder(walk.ctx, log, order))

\* C28: within the retreat phase the LVs of aOnly may be retreated in any
\* order that retreats every delete of an item before the item's insert, as
\* the descending order of traverseAndApply does: every such order gives the
\* same item states and passes the per-retreat checks.
C28_UndeleteFirst ==
  walk.pc = "entry" =>
    LET log == oplog[branch.peer]
        d == diff(log.cg, walk.ctx.curVersion, Head(walk.entries).parents)
        retreated == retreatAll(walk.ctx, log, d.aOnly, Len(d.aOnly))
    IN /\ ~retreated.err
       /\ \A order \in ordersOf(coveredBy(d.aOnly)) :
            undeletesFirst(walk.ctx, log, order) =>
              LET same(ctx) == ~ctx.err /\ ctx.items = retreated.items
              IN same(retreatInOrder(walk.ctx, log, order))

\* An entry whose retreat takes back both deletes of one item and one
\* operation more, in an order that undeletes first.
C28_Witness ==
  /\ walk.pc = "entry"
  /\ LET log == oplog[branch.peer]
         d == diff(log.cg, walk.ctx.curVersion, Head(walk.entries).parents)
         lvs == coveredBy(d.aOnly)
     IN /\ Cardinality(lvs) >= 3
        /\ \E d1, d2 \in lvs :
             /\ d1 # d2
             /\ log.ops[d1 + 1].type = "del" /\ log.ops[d2 + 1].type = "del"
             /\ walk.ctx.delTargets[d1 + 1] = walk.ctx.delTargets[d2 + 1]
        /\ \E order \in ordersOf(lvs) :
             /\ undeletesFirst(walk.ctx, log, order)
             /\ order[1] < order[2]

\* ---- C30: findConflicting ----
\* The ranges that visit receives, in the order of the calls.
visitedRanges(fc) == [i \in 1..Len(fc.visits) |-> fc.visits[i][1]]

\* Non-empty ranges, each one wholly below the one before it.
descending(ranges) ==
  /\ \A i \in 1..Len(ranges) : ranges[i][1] < ranges[i][2]
  /\ \A i \in 1..(Len(ranges) - 1) : ranges[i + 1][2] <= ranges[i][1]

\* No member of the frontier is an ancestor of another one.
antichain(cg, frontier) ==
  \A i, j \in 1..Len(frontier) :
    i # j => ~versionContainsLV(cg, <<frontier[i]>>, frontier[j])

\* C30: findConflicting(a, b, visit) returns the frontier of the
\* greatest common ancestor: every LV in the returned frontier's history is
\* in the history of both a and b, and no later common version exists; it
\* calls visit with pairwise disjoint ranges in strictly descending LV
\* order, all lying after the returned common ancestor.
C30_GreatestCommonAncestor ==
  walk.pc = "idle" =>
    \A p \in Peers :
      LET cg == oplog[p].cg
      IN \A a, b \in Frontiers(cg) :
           LET common == historyOf(cg, a) \cap historyOf(cg, b)
               found(fc) ==
                 (antichain(cg, a) /\ antichain(cg, b)) =>
                 /\ historyOf(cg, fc.result) = common
                 /\ descending(visitedRanges(fc))
                 /\ coveredBy(visitedRanges(fc)) \cap historyOf(cg, fc.result) = {}
           IN found(findConflicting(cg, a, b))

\* ---- C31: the two lists of mergeChangesIntoBranch ----
\* C31: In mergeChangesIntoBranch the ranges that findConflicting reports
\* with flag B (newOps) are exactly the LVs in the history of mergeVersion
\* that are not in the history of branch.version, the ranges reported with
\* flag A or Shared (conflictOps) are all in the history of branch.version,
\* and no LV is in both lists. Checked for branches at every version of up
\* to two LVs.
C31_NewAndConflict ==
  walk.pc = "idle" =>
    LET log == oplog[branch.peer]
    IN \A version, mergeVersion \in Frontiers(log.cg) :
         (antichain(log.cg, version) /\ antichain(log.cg, mergeVersion)) =>
           LET split(cs) ==
                 /\ coveredBy(cs.newOps)
                      = historyOf(log.cg, mergeVersion)
                          \ historyOf(log.cg, version)
                 /\ coveredBy(cs.conflictOps)
                      \subseteq historyOf(log.cg, version)
                 /\ coveredBy(cs.newOps) \cap coveredBy(cs.conflictOps) = {}
           IN split(conflictSplit(log, version, mergeVersion))

\* A merge with operations of all three kinds: new ones, ones only the
\* branch has, and ones both have after the common ancestor.
C31_Witness ==
  /\ walk.pc = "idle"
  /\ LET log == oplog[branch.peer]
     IN \E version, mergeVersion \in Frontiers(log.cg) :
          /\ antichain(log.cg, version) /\ antichain(log.cg, mergeVersion)
          /\ conflictSplit(log, version, mergeVersion).newOps # <<>>
          /\ \E i \in 1..Len(findConflicting(log.cg, version, mergeVersion).visits) :
               findConflicting(log.cg, version, mergeVersion).visits[i][2] = FlagShared
          /\ \E i \in 1..Len(findConflicting(log.cg, version, mergeVersion).visits) :
               findConflicting(log.cg, version, mergeVersion).visits[i][2] = FlagA

\* ---- C32: findDominators ----
\* The lists of up to MaxVersions LVs of cg, in any order, repeats included.
VersionLists(cg) ==
  UNION {[1..n -> LVsOf(cg)] : n \in 0..MaxVersions}

\* The members of a list that are no ancestor of another member.
dominatorsOf(cg, versions) ==
  {versions[i] : i \in
     {i \in 1..Len(versions) :
        \A j \in 1..Len(versions) :
          versions[j] = versions[i]
            \/ versions[i] \notin historyOf(cg, <<versions[j]>>)}}

\* C32: findDominators(versions) returns exactly those input LVs that are
\* not an ancestor of any other input LV, each once even when the input
\* repeats it, sorted ascending, for inputs of any size (the 0-, 1- and
\* 2-element fast paths included).
C32_Dominators ==
  walk.pc = "idle" =>
    LET cg == oplog[branch.peer].cg
    IN \A versions \in VersionLists(cg) :
         LET exact(result) ==
               /\ {result[i] : i \in 1..Len(result)} = dominatorsOf(cg, versions)
               /\ \A i \in 1..(Len(result) - 1) : result[i] < result[i + 1]
         IN exact(findDominators(cg, versions))

\* A list of three versions given out of order, one of them twice, whose
\* other member is an ancestor of the repeated one; and a pair of concurrent
\* versions.
C32_Witness ==
  /\ walk.pc = "idle"
  /\ LET cg == oplog[branch.peer].cg
     IN /\ \E v, w \in LVsOf(cg) :
             /\ w < v
             /\ w \in historyOf(cg, <<v>>)
             /\ findDominators(cg, <<v, w, v>>) = <<v>>
        /\ \E v, w \in LVsOf(cg) :
             v < w /\ findDominators(cg, <<w, v>>) = <<v, w>>

\* ---- C33: iterVersionsBetween ----
\* The stored entry of cg that holds the LV v.
storedAt(cg, v) ==
  cg.entries[CHOOSE i \in 1..Len(cg.entries) :
               cg.entries[i].version <= v /\ v < cg.entries[i].vEnd]

\* C33: iterVersionsBetween(vStart, vEnd) yields, in ascending LV order,
\* entries whose LV ranges partition exactly [vStart, vEnd); an entry that
\* is clipped at its start to begin at LV s strictly inside a stored entry
\* has parents [s - 1] and its seq advanced by the clipped amount, and an
\* entry that begins at its stored start keeps the stored parents.
C33_IterPartition ==
  walk.pc = "idle" =>
    LET cg == oplog[branch.peer].cg
    IN \A vStart, vEnd \in 0..nextLV(cg) :
         vStart <= vEnd =>
           LET partition(it) ==
                 LET es == it.entries
                 IN /\ ~it.err
                    /\ (es = <<>>) = (vStart = vEnd)
                    /\ es # <<>> =>
                         es[1].version = vStart /\ es[Len(es)].vEnd = vEnd
                    /\ \A i \in 1..(Len(es) - 1) : es[i].vEnd = es[i + 1].version
                    /\ \A i \in 1..Len(es) :
                         LET stored == storedAt(cg, es[i].version)
                             clipped == es[i].version - stored.version
                         IN /\ es[i].version < es[i].vEnd
                            /\ es[i].vEnd = min2(vEnd, stored.vEnd)
                            /\ es[i].agent = stored.agent
                            /\ es[i].seq = stored.seq + clipped
                            /\ es[i].parents = IF clipped = 0 THEN stored.parents
                                               ELSE <<es[i].version - 1>>
           IN partition(iterVersionsBetween(cg, vStart, vEnd))

\* The graph holds an entry of three LVs followed by another entry, so a
\* range can start and end inside the first and can run across both.
C33_Witness ==
  /\ walk.pc = "idle"
  /\ LET cg == oplog[branch.peer].cg
     IN /\ Len(cg.entries) >= 2
        /\ cg.entries[1].vEnd - cg.entries[1].version >= 3
        /\ Len(iterVersionsBetween(cg, 1, nextLV(cg)).entries) >= 2
        /\ iterVersionsBetween(cg, 1, 2).entries[1].parents = <<0>>

\* ---- C34: the replay of a well-formed history ----
\* C34: Replay of well-formed history never fails: for every oplog built
\* only from localInsert / localDelete calls at positions valid in the
\* issuing peer's document, combined by any sequence of mergeOplogInto
\* calls, checkout and mergeChangesIntoBranch run to completion without a
\* replay invariant error (no failed retreat / advance check, no position
\* past the end of the item list, no missing item).
C34_ReplayNeverFails ==
  /\ \A p \in Peers : ~checkoutCtx(oplog[p]).err
  /\ \A mergeVersion \in MergeVersions(oplog[branch.peer]) :
       ~mergeCtx(asBranch(branch), oplog[branch.peer], mergeVersion).err

\* The holder of a branch that is behind its oplog, where the oplog has
\* two heads and a delete, and the merge of the heads replays operations
\* the branch already has.
C34_Witness ==
  LET log == oplog[branch.peer]
  IN /\ Len(log.cg.heads) = 2
     /\ branch.version # <<>>
     /\ branch.version # log.cg.heads
     /\ \E i \in 1..Len(log.ops) : log.ops[i].type = "del"
     /\ conflictSplit(log, branch.version, log.cg.heads).conflictOps # <<>>
     /\ conflictSplit(log, branch.version, log.cg.heads).newOps # <<>>

\* ---- C35: the items and the snapshot at the end of a checkout ----
\* The contents of the items whose endState is Inserted, in list order.
RECURSIVE insertedContent(_, _)
insertedContent(log, items) ==
  IF items = <<>> THEN <<>>
  ELSE (IF Head(items).endState = Inserted
          THEN <<log.ops[Head(items).opId + 1].content>> ELSE <<>>)
       \o insertedContent(log, Tail(items))

\* C35: At the end of a full checkout, the snapshot equals, in item-list
\* order, the contents of exactly those items whose endState is Inserted;
\* every item's endState is Inserted or Deleted, and it is Deleted exactly
\* when at least one delete operation of the log targets that item.
C35_SnapshotIsInserted ==
  \A p \in Peers :
    LET log == oplog[p]
        final(ctx) ==
          /\ ~ctx.err
          /\ ctx.snapshot = insertedContent(log, ctx.items)
          /\ \A lv \in 0..(Len(log.ops) - 1) :
               IF log.ops[lv + 1].type = "del"
                 THEN \E i \in 1..Len(ctx.items) :
                        ctx.items[i].opId = ctx.delTargets[lv + 1]
                 ELSE /\ ctx.delTargets[lv + 1] = 0 - 1
                      /\ Cardinality({i \in 1..Len(ctx.items) :
                                        ctx.items[i].opId = lv}) = 1
          /\ \A i \in 1..Len(ctx.items) :
               /\ ctx.items[i].endState \in {Inserted, Deleted}
               /\ ctx.items[i].endState = Deleted
                    <=> deletesOf(ctx, ctx.items[i].opId) # {}
    IN final(checkoutCtx(log))

\* A checkout that ends with a deleted item and a kept one, the kept one
\* alone in the snapshot.
C35_Witness ==
  \E p \in Peers :
    LET log == oplog[p]
        final(ctx) ==
          /\ Len(ctx.items) = 2
          /\ \E i, j \in 1..2 : /\ ctx.items[i].endState = Deleted
                                /\ ctx.items[j].endState = Inserted
          /\ Len(ctx.snapshot) = 1
    IN final(checkoutCtx(log))

\* ---- C36: the placeholders of mergeChangesIntoBranch ----
\* The document at a version: the replay, from nothing, of the version's
\* history.
documentAt(log, version) ==
  mergeChangesIntoBranch([snapshot |-> <<>>, version |-> <<>>], log,
                         version).branch.snapshot

\* C36: In mergeChangesIntoBranch the placeholder block holds
\* max(branch.version) + 1 items (none for an empty version), which is at
\* least the length of the document at commonAncestor, so every position
\* used by a replayed conflict or new operation resolves to an item inside
\* the list, and the snapshot index computed for each new operation is the
\* index of the corresponding element in branch.snapshot.
C36_Placeholders ==
  LET log == oplog[branch.peer]
      b == asBranch(branch)
      n == placeholderLength(b.version)
  IN /\ b.snapshot = documentAt(log, b.version)
     /\ IF b.version = <<>> THEN n = 0
        ELSE /\ n - 1 \in {b.version[i] : i \in 1..Len(b.version)}
             /\ \A i \in 1..Len(b.version) : b.version[i] < n
     /\ \A mergeVersion \in MergeVersions(log) :
          LET holds(cs, m) ==
                /\ Len(documentAt(log, cs.commonAncestor)) <= n
                /\ ~m.err
                /\ m.branch.snapshot = documentAt(log, m.branch.version)
          IN holds(conflictSplit(log, b.version, mergeVersion),
                   mergeChangesIntoBranch(b, log, mergeVersion))

\* A branch with content is merged with a version it does not have: the
\* replay runs over placeholders, replays operations the branch has, and
\* writes a new operation into the snapshot behind an element of it.
C36_Witness ==
  LET log == oplog[branch.peer]
      b == asBranch(branch)
  IN /\ b.snapshot # <<>>
     /\ \E mergeVersion \in MergeVersions(log) :
          LET seen(cs, m) ==
                /\ cs.conflictOps # <<>>
                /\ cs.newOps # <<>>
                /\ cs.commonAncestor # <<>>
                /\ Len(m.branch.snapshot) > Len(b.snapshot)
                /\ m.branch.snapshot[1] = b.snapshot[1]
          IN seen(conflictSplit(log, b.version, mergeVersion),
                  mergeChangesIntoBranch(b, log, mergeVersion))

\* ---- C37: the records that mergeOplogInto sends ----
\* The Ids a record of a serialised diff stands for.
idsOfRecord(rec) == {<<rec.agent, rec.seq + k>> : k \in 0..(rec.len - 1)}

RECURSIVE totalLength(_)
totalLength(ranges) ==
  IF ranges = <<>> THEN 0
  ELSE (Head(ranges)[2] - Head(ranges)[1]) + totalLength(Tail(ranges))

\* C37: The record sequence that mergeOplogInto sends (serializeDiff over
\* diff(commonVersion, src heads).bOnly, commonVersion being src's
\* intersection with dest's version summary) is in causal order: every
\* parent Id of a record refers to an earlier record of the diff or to an
\* entry dest already knows, so mergePartialVersions resolves every parent
\* and adds exactly the LVs in those ranges.
C37_CausalOrder ==
  \A dest, src \in Peers :
    LET D == oplog[dest]
        S == oplog[src]
        ranges == mergeRanges(D, S)
        data == serializeDiff(S.cg, ranges)
        m == mergePartialVersions(D.cg, data)
    IN /\ \A k \in 1..Len(data) :
            /\ data[k].len > 0
            /\ \A i \in 1..Len(data[k].parents) :
                 \/ \E j \in 1..(k - 1) : data[k].parents[i] \in idsOfRecord(data[j])
                 \/ hasVersion(D.cg, data[k].parents[i][1], data[k].parents[i][2])
            /\ \A id \in idsOfRecord(data[k]) : ~hasVersion(D.cg, id[1], id[2])
       /\ UNION {idsOfRecord(data[k]) : k \in 1..Len(data)}
            = {lvToRaw(S.cg, v) : v \in coveredBy(ranges)}
       /\ ~m.err
       /\ nextLV(m.cg) = nextLV(D.cg) + totalLength(ranges)
       /\ \A v \in coveredBy(ranges) :
            LET id == lvToRaw(S.cg, v)
            IN /\ hasVersion(m.cg, id[1], id[2])
               /\ tryRawToLV(m.cg, id[1], id[2])[1] >= nextLV(D.cg)

\* The diff has two ranges, with LVs the destination knows in between, and
\* a record of the second range has a parent in the first.
C37_Witness ==
  \E dest, src \in Peers :
    LET D == oplog[dest]
        S == oplog[src]
        ranges == mergeRanges(D, S)
        data == serializeDiff(S.cg, ranges)
    IN /\ Len(ranges) = 2
       /\ D.ops # <<>>
       /\ \E k \in 2..Len(data) : \E i \in 1..Len(data[k].parents) :
            \E j \in 1..(k - 1) : data[k].parents[i] \in idsOfRecord(data[j])

\* ---- C38: merging what the branch already has ----
\* C38: mergeChangesIntoBranch is idempotent: called with a mergeVersion
\* that is already contained in branch.version (for instance, the same call
\* repeated), it leaves branch.snapshot and branch.version unchanged.
C38_MergeKnownVersion ==
  LET log == oplog[branch.peer]
      b == asBranch(branch)
      same(m, b0) == ~m.err /\ m.branch.snapshot = b0.snapshot
                            /\ m.branch.version = b0.version
      repeated(once) ==
        /\ ~once.err
        /\ same(mergeChangesIntoBranch(once.branch, log, log.cg.heads),
                once.branch)
  IN /\ \A mergeVersion \in Frontiers(log.cg) :
          historyOf(log.cg, mergeVersion) \subseteq historyOf(log.cg, b.version)
            => same(mergeChangesIntoBranch(b, log, mergeVersion), b)
     /\ repeated(mergeChangesIntoBranch(b, log, log.cg.heads))

\* A branch with content is merged with a version of its history that is
\* not one of its heads, which replays operations of the branch, and a
\* merge with the oplog's heads would change it.
C38_Witness ==
  LET log == oplog[branch.peer]
      b == asBranch(branch)
  IN /\ b.snapshot # <<>>
     /\ b.version # log.cg.heads
     /\ mergeChangesIntoBranch(b, log, log.cg.heads).branch # b
     /\ \E v \in historyOf(log.cg, b.version) :
          /\ \A i \in 1..Len(b.version) : b.version[i] # v
          /\ conflictSplit(log, b.version, <<v>>).conflictOps # <<>>

twoDeletes(log) ==
  /\ Len(log.ops) = 3
  /\ log.ops[1].type = "ins"
  /\ \A lv \in 1..2 : /\ log.ops[lv + 1].type = "del"
                      /\ log.ops[lv + 1].pos = 0
                      /\ parentsOf(log.cg, lv) = <<0>>

DoubleDeleted == Deleted + 1

\* C40: In the scenario of two concurrent deletes of the same single item X
\* (both deleting position 0, both with the same parents), while the second
\* delete's branch is being replayed the X item's curState takes the value
\* DoubleDeleted (2) on account of the other delete: X is DoubleDeleted when
\* the walk reaches the second delete, or once it has moved to the delete's
\* parents, or once it has applied the delete.
C40_DoubleDeleted ==
  LET log == oplog[branch.peer]
      taken(d) ==
        LET moved == advanceAll(retreatAll(walk.ctx, log, d.aOnly, Len(d.aOnly)),
                                log, d.bOnly)
        IN DoubleDeleted \in {walk.ctx.items[1].curState,
                              moved.items[1].curState,
                              apply1(moved, TRUE, log, 2).items[1].curState}
  IN (twoDeletes(log) /\ walk.pc = "entry" /\ Head(walk.entries).version = 2)
       => taken(diff(log.cg, walk.ctx.curVersion, Head(walk.entries).parents))

\* C40 as amended: in that scenario X is never DoubleDeleted. The replay
\* retreats the first delete before it applies the second, so X is
\* Inserted when the second delete is applied and Deleted after it, with
\* both deletes targeting X; an item is DoubleDeleted only at a version
\* that has two deletes of it in its history.
C40_RetreatThenDelete ==
  walk.pc \in {"entry", "apply", "done"} =>
    LET log == oplog[branch.peer]
        ctx == walk.ctx
    IN /\ twoDeletes(log) =>
            /\ \A i \in 1..Len(ctx.items) :
                 ctx.items[i].curState \in {Inserted, Deleted}
            /\ (walk.pc = "entry" /\ Head(walk.entries).version = 2) =>
                 /\ ctx.items[1].curState = Deleted
                 /\ ctx.curVersion = <<1>>
            /\ (walk.pc = "apply" /\ walk.lv = 2) =>
                 /\ ctx.items[1].curState = Inserted
                 /\ ctx.items[1].endState = Deleted
                 /\ ctx.delTargets = <<0 - 1, 0, 0 - 1>>
            /\ walk.pc = "done" =>
                 /\ ctx.items[1].curState = Deleted
                 /\ ctx.items[1].endState = Deleted
                 /\ ctx.delTargets = <<0 - 1, 0, 0>>
                 /\ ctx.snapshot = <<>>
       /\ \A i \in 1..Len(ctx.items) :
            ctx.items[i].curState = DoubleDeleted =>
              \E d1, d2 \in historyOf(log.cg, walkVersion) :
                /\ d1 < d2
                /\ {d1, d2} \subseteq deletesOf(ctx, ctx.items[i].opId)

\* The walk has moved to the second delete: the first delete is retreated
\* and X is Inserted again, about to be deleted.
C40_Witness ==
  /\ twoDeletes(oplog[branch.peer])
  /\ walk.pc = "apply"
  /\ walk.lv = 2
  /\ walk.ctx.items[1].curState = Inserted
  /\ walk.ctx.items[1].endState = Deleted

====
